---- MODULE Spec2Model ----
(***************************************************************************)
(* Model of the review orchestrator of the reviewer (package review):      *)
(* Run with its worker pool, the dispatcher goroutine and the collecting   *)
(* loop, the per-file response parsing, comment deduplication and the      *)
(* rule + model verdict, together with the progress callback that          *)
(* startReviewCmd hands to Run.                                            *)
(***************************************************************************)
EXTENDS Integers, Sequences, FiniteSets, TLC

\* ------------------------------------------------------------------ bounds
\* Largest number of diff files handed to Run.
MaxFiles == 3

\* ------------------------------------------------------------- constants
\* opts.MaxConcurrency = 3 when the configured value is <= 0.
DefaultMaxConcurrency == 3

\* Values of RunOptions.MaxConcurrency the caller may configure.
ConfiguredConcurrency == {-1, 0, 1, 2}

\* ------------------------------------------------------------ strings
\* strings.TrimSpace on the strings that occur in the model.
TrimSpace(s) ==
    CASE s = " a.go " -> "a.go"
      [] s = " Leak " -> "Leak"
      [] s = " closes nothing " -> "closes nothing"
      [] s = " no-go " -> "no-go"
      [] s = " " -> ""
      [] s = " fine " -> "fine"
      [] OTHER -> s

\* strings.ToUpper on the strings that occur in the model.
ToUpper(s) ==
    CASE s = "blocker" -> "BLOCKER"
      [] s = "nit" -> "NIT"
      [] s = "minor" -> "MINOR"
      [] s = "issue" -> "ISSUE"
      [] s = "suggestion" -> "SUGGESTION"
      [] s = "no-go" -> "NO-GO"
      [] s = "no_go" -> "NO_GO"
      [] s = "nogo" -> "NOGO"
      [] s = "go" -> "GO"
      [] s = "maybe" -> "MAYBE"
      [] OTHER -> s

\* ------------------------------------------------------------ types.go
SeverityNit == "NIT"
SeveritySuggestion == "SUGGESTION"
SeverityIssue == "ISSUE"
SeverityBlocker == "BLOCKER"

DecisionGo == "GO"
DecisionNoGo == "NO_GO"

\* A NormalizeSeverity without the default case.
NormalizeSeverityNoDefault(value) ==
    ToUpper(TrimSpace(value))

NormalizeSeverity(value) ==
    LET v == ToUpper(TrimSpace(value))
    IN  CASE v = "BLOCKER" -> SeverityBlocker
          [] v = "ISSUE" -> SeverityIssue
          [] v = "SUGGESTION" -> SeveritySuggestion
          [] OTHER -> SeverityNit

NormalizeDecision(value) ==
    LET v == ToUpper(TrimSpace(value))
    IN  IF v \in {"NO_GO", "NO-GO", "NOGO"} THEN DecisionNoGo ELSE DecisionGo

\* A digest that leaves the severity out.
StableCommentIDNoSeverity(comment) ==
    << TrimSpace(comment.FilePath), comment.StartLine, comment.EndLine,
       TrimSpace(comment.Title), TrimSpace(comment.Body) >>

\* A digest that also covers the evidence.
StableCommentIDWithEvidence(comment) ==
    << TrimSpace(comment.FilePath), comment.StartLine, comment.EndLine,
       comment.Severity, TrimSpace(comment.Title), TrimSpace(comment.Body),
       comment.Evidence >>

\* The digest of the identity tuple; the tuple stands for its SHA-256.
StableCommentID(comment) ==
    << TrimSpace(comment.FilePath), comment.StartLine, comment.EndLine,
       comment.Severity, TrimSpace(comment.Title), TrimSpace(comment.Body) >>

CountSeverity(comments, sev) ==
    Cardinality({i \in 1..Len(comments) : comments[i].Severity = sev})

ComputeStats(comments) ==
    [ Nit        |-> CountSeverity(comments, SeverityNit),
      Suggestion |-> CountSeverity(comments, SeveritySuggestion),
      Issue      |-> CountSeverity(comments, SeverityIssue),
      Blocker    |-> CountSeverity(comments, SeverityBlocker) ]

EmptyVerdict ==
    [ Decision |-> "", Summary |-> "", Rationale |-> << >>,
      Stats |-> ComputeStats(<< >>) ]

\* Result{}: the zero value Run returns beside an error.
EmptyResult ==
    [ Comments |-> << >>, Verdict |-> EmptyVerdict, Dropped |-> 0 ]

\* The Result Run returns on success: its literal names Comments, Verdict,
\* Model, GuidelineHash and GeneratedAt, so Dropped keeps its zero value.
ResultOf(comments, verdict) ==
    [ Comments |-> comments, Verdict |-> verdict, Dropped |-> 0 ]

\* ------------------------------------------------- backend responses
\* One entry of the "comments" array of a per-file response, as decoded.
Entry(path, startLine, endLine, severity, title, body, evidence) ==
    [ FilePath |-> path, StartLine |-> startLine, EndLine |-> endLine,
      Severity |-> severity, Title |-> title, Body |-> body,
      Evidence |-> evidence ]

EntryLeak == Entry(" a.go ", 3, 4, "blocker", " Leak ", " closes nothing ", "defer missing")
EntryLeakAgain == Entry("a.go", 3, 4, "BLOCKER", "Leak", "closes nothing", "see line 3")
EntryNit == Entry("a.go", 1, 1, "minor", "Name", "rename it", "")
EntryBadRange == Entry("a.go", 5, 2, "issue", "Range", "end before start", "")
EntryNoTitle == Entry("a.go", 2, 2, "issue", " ", "untitled", "")
EntryLeakIssue == Entry("a.go", 3, 4, "issue", "Leak", "closes nothing", "")

\* The text a successful per-file ChatCompletion may return: json tells whether
\* json.Unmarshal accepts it, comments is the decoded "comments" array.
FileContent(entries) ==
    [ json |-> TRUE, comments |-> entries ]

NotJSONFile ==
    [ json |-> FALSE, comments |-> << >> ]

FileContents ==
    { NotJSONFile,
      FileContent(<< EntryLeak >>),
      FileContent(<< EntryNit, EntryBadRange >>) }

\* The text a successful summary ChatCompletion may return.
VerdictContent(decision, summary, rationale) ==
    [ json |-> TRUE, decision |-> decision, summary |-> summary,
      rationale |-> rationale ]

NotJSONVerdict ==
    [ json |-> FALSE, decision |-> "", summary |-> "", rationale |-> << >> ]

VerdictContents ==
    { NotJSONVerdict,
      VerdictContent("GO", " fine ", << "ok" >>),
      VerdictContent(" no-go ", " ", << >>),
      VerdictContent("maybe", "fine", << "ok" >>) }

\* ------------------------------------------------------ parseFileComments
trimOptional(value) ==
    IF TrimSpace(value) = "" THEN "" ELSE TrimSpace(value)

CommentOf(item) ==
    [ ID        |-> << >>,
      FilePath  |-> TrimSpace(item.FilePath),
      StartLine |-> item.StartLine,
      EndLine   |-> item.EndLine,
      Severity  |-> NormalizeSeverity(item.Severity),
      Title     |-> TrimSpace(item.Title),
      Body      |-> TrimSpace(item.Body),
      Evidence  |-> trimOptional(item.Evidence),
      Publish   |-> TRUE ]

\* The two `continue` conditions of the decoding loop.
EntryDropped(comment) ==
    \/ comment.StartLine <= 0 \/ comment.EndLine <= 0
    \/ comment.EndLine < comment.StartLine
    \/ comment.FilePath = "" \/ comment.Title = "" \/ comment.Body = ""

\* A loop that puts each kept comment in front of the ones kept before.
RECURSIVE KeepValidNewestFirst(_)
KeepValidNewestFirst(items) ==
    IF items = << >> THEN << >>
    ELSE LET comment == CommentOf(Head(items))
         IN  IF EntryDropped(comment) THEN KeepValidNewestFirst(Tail(items))
             ELSE KeepValidNewestFirst(Tail(items)) \o << comment >>

RECURSIVE KeepValid(_)
KeepValid(items) ==
    IF items = << >> THEN << >>
    ELSE LET comment == CommentOf(Head(items))
         IN  IF EntryDropped(comment) THEN KeepValid(Tail(items))
             ELSE << comment >> \o KeepValid(Tail(items))

\* The entries of a decoded response that the loop leaves out.
RECURSIVE LeftOut(_)
LeftOut(items) ==
    IF items = << >> THEN 0
    ELSE (IF EntryDropped(CommentOf(Head(items))) THEN 1 ELSE 0) + LeftOut(Tail(items))

\* parseFileComments: (comments, err).
parseFileComments(content) ==
    IF ~content.json
    THEN [ comments |-> << >>, err |-> "decode" ]
    ELSE [ comments |-> KeepValid(content.comments), err |-> "" ]

\* ---------------------------------------------------------- dedupeComments
WithID(comment) ==
    IF comment.ID = << >> THEN [comment EXCEPT !.ID = StableCommentID(comment)]
    ELSE comment

\* The `seen` map after the first loop: the first comment of each ID.
RECURSIVE SeenAfter(_, _)
SeenAfter(comments, seen) ==
    IF comments = << >> THEN seen
    ELSE LET comment == WithID(Head(comments))
         IN  IF \E c \in seen : c.ID = comment.ID
             THEN SeenAfter(Tail(comments), seen)
             ELSE SeenAfter(Tail(comments), seen \cup {comment})

IsOrderOf(seq, set) ==
    /\ Len(seq) = Cardinality(set)
    /\ {seq[i] : i \in 1..Len(seq)} = set

\* dedupeComments ranges over the map to build its result: Go leaves the
\* iteration order of a map unspecified, so every order is a possible result.
dedupeComments(comments) ==
    LET seen == SeenAfter(comments, {})
    IN  { s \in [1..Cardinality(seen) -> seen] : IsOrderOf(s, seen) }

\* ------------------------------------------------------------- state
VARIABLES
    files,        \* the []git.DiffFile handed to Run
    opts,         \* Run's copy of RunOptions (MaxConcurrency)
    guidelinesOK, \* whether HashGuidelines / LoadGuidelines can read the files
    cancelled,    \* ctx.Done() is closed
    cancelAt,     \* the phase of Run in which cancel was called ("" if never)
    pc,           \* where Run's own goroutine is
    dpc,          \* where the dispatcher goroutine is
    jobsNext,     \* index of the next file the dispatcher sends on jobs
    jobsClosed,   \* close(jobs) has run
    wpc,          \* where each worker goroutine is
    wresult,      \* the fileReviewResult a worker has built for its file
    current,      \* `result`, the value Run last received from results
    completed,    \* Run's completed counter
    firstErr,     \* Run's firstErr
    collected,    \* Run's collected comments
    deduped,      \* Run's deduped comments
    verdictCalls, \* ChatCompletion invocations made by generateVerdict
    generated,    \* what generateVerdict returned: (Verdict, error)
    calls,        \* per file: ChatCompletion invocations made by workers
    dispatched,   \* per file: times the file was sent on jobs
    resolved,     \* per file: times a result of the file was received
    ret,          \* what Run returned: (Result, error)
    update,       \* the Progress handed to the callback that is running
    notices,      \* per file: progress notifications that named the file
    failedSoFar,  \* results received so far that carried an error
    droppedEntries, \* entries parseFileComments left out so far
    \* dedupeComments on the comments of two runs that are given the same
    \* per-file comment lists
    perFile,      \* the comments parseFileComments returned for each file
    arrivedOf,    \* per run: the files whose result Run has received
    collectedOf,  \* per run: Run's collected
    dedupedOf,    \* per run: what dedupeComments returned
    \* ParseUnifiedDiff
    diff,         \* the lines of the diff text
    ppc,          \* where ParseUnifiedDiff is
    scanned,      \* lines the scanner has delivered
    diffFiles,    \* ParseUnifiedDiff's files
    currentFile,  \* *currentFile, or the nil file
    currentHunk,  \* index in currentFile.Hunks that currentHunk points to, 0 for nil
    oldLine,      \* the old-side counter
    newLine,      \* the new-side counter
    parseRet,     \* what ParseUnifiedDiff returned: ([]DiffFile, error)
    \* parseHunkHeader
    header,       \* the numbers a hunk header line is written from
    hunkRet,       \* what parseHunkHeader returned for that line
    \* Client.ChatCompletion
    chatReq,      \* the ChatRequest and the client's API key
    chatPc,       \* where ChatCompletion is
    chatCtx,      \* ctx.Done() of the call is closed
    attempt,      \* the loop variable of the retry loop
    served,       \* what httpClient.Do and the body gave, attempt by attempt
    timer,        \* the backoff being waited for, in ms; 0 for none
    lastErr,      \* lastErr
    chatRet,       \* what ChatCompletion returned: (content, error)
    \* HashGuidelines, called twice
    hashPaths,    \* per call: the guideline paths it is given
    hashFree,     \* the free text of both calls
    unreadable,   \* the paths os.ReadFile fails on
    hashRet,       \* per call: what HashGuidelines returned: (digest, error)
    \* the dashboard: Model.Update, the commands it returns and the review goroutine
    ui,           \* the Model the program holds
    keyOK,        \* an OpenRouter key is configured or was typed in
    pressed,      \* keys pressed so far
    lastKey,      \* the key pressed last
    quit,         \* tea.Quit was returned
    inbox,        \* messages of finished commands that Update has not seen yet
    launched,     \* review goroutines startReviewCmd has started
    gpc,          \* per review: where its goroutine is
    runErr,       \* per review: Run returned an error
    listening,    \* reviews whose updates channel a listenReviewCmd is receiving from
    ctxDone,       \* reviews whose cancel function was called
    \* parseFileComments on one response
    answer,       \* the content ChatCompletion returned for the file
    parsedOut,     \* what parseFileComments returned: (comments, err)
    \* RenderUnifiedDiffFile on one file, and the parse of its output
    rfile,         \* the DiffFile handed to RenderUnifiedDiffFile
    \* stripCodeFence on one response
    reply,        \* the content handed to stripCodeFence, in its parts
    stripRet,      \* what stripCodeFence returned
    \* the setup wizard: Model.updateWizard key by key
    wiz,          \* the fields of Model that updateWizard reads and writes
    wizKey,       \* the key of the last call of updateWizard ("" before the first)
    wizFrom       \* the wizardStep at the start of that call

runVars ==
    << files, opts, guidelinesOK, cancelled, cancelAt, pc, dpc,
       jobsNext, jobsClosed, wpc, wresult, current, completed, firstErr, collected,
       deduped, verdictCalls, generated, calls, dispatched, resolved, ret,
       update, notices, failedSoFar, droppedEntries >>

dedupeVars ==
    << perFile, arrivedOf, collectedOf, dedupedOf >>

diffVars ==
    << diff, ppc, scanned, diffFiles, currentFile, currentHunk, oldLine, newLine, parseRet >>

hunkVars ==
    << header, hunkRet >>

chatVars ==
    << chatReq, chatPc, chatCtx, attempt, served, timer, lastErr, chatRet >>

hashVars ==
    << hashPaths, hashFree, unreadable, hashRet >>

uiVars ==
    << ui, keyOK, pressed, lastKey, quit, inbox, launched, gpc, runErr, listening, ctxDone >>

parseVars ==
    << answer, parsedOut >>

renderVars ==
    << rfile >>

fenceVars ==
    << reply, stripRet >>

wizardVars ==
    << wiz, wizKey, wizFrom >>

vars ==
    << runVars, dedupeVars, diffVars, hunkVars, chatVars, hashVars, uiVars, parseVars, renderVars, fenceVars, wizardVars >>

\* What the steps of Run, of dedupeComments and of ParseUnifiedDiff leave alone.
notRunVars ==
    << dedupeVars, diffVars, hunkVars, chatVars, hashVars, uiVars, parseVars, renderVars, fenceVars, wizardVars >>

notDedupeVars ==
    << runVars, diffVars, hunkVars, chatVars, hashVars, uiVars, parseVars, renderVars, fenceVars, wizardVars >>

notDiffVars ==
    << runVars, dedupeVars, hunkVars, chatVars, hashVars, uiVars, parseVars, renderVars, fenceVars, wizardVars >>

notHunkVars ==
    << runVars, dedupeVars, diffVars, chatVars, hashVars, uiVars, parseVars, renderVars, fenceVars, wizardVars >>

notChatVars ==
    << runVars, dedupeVars, diffVars, hunkVars, hashVars, uiVars, parseVars, renderVars, fenceVars, wizardVars >>

notHashVars ==
    << runVars, dedupeVars, diffVars, hunkVars, chatVars, uiVars, parseVars, renderVars, fenceVars, wizardVars >>

notUiVars ==
    << runVars, dedupeVars, diffVars, hunkVars, chatVars, hashVars, parseVars, renderVars, fenceVars, wizardVars >>

notParseVars ==
    << runVars, dedupeVars, diffVars, hunkVars, chatVars, hashVars, uiVars, renderVars, fenceVars, wizardVars >>

notRenderVars ==
    << runVars, dedupeVars, diffVars, hunkVars, chatVars, hashVars, uiVars, parseVars, fenceVars, wizardVars >>

notFenceVars ==
    << runVars, dedupeVars, diffVars, hunkVars, chatVars, hashVars, uiVars, parseVars, renderVars, wizardVars >>

notWizardVars ==
    << runVars, dedupeVars, diffVars, hunkVars, chatVars, hashVars, uiVars, parseVars, renderVars, fenceVars >>

\* A DiffFile: its path and its number of hunks.
Paths == << "a.go", "b.go", "c.go", "d.go", "e.go", "f.go", "g.go", "h.go" >>

DiffFile(i, hunks) ==
    [ Path |-> Paths[i], Hunks |-> hunks ]

\* The DiffFile of a section whose new path is /dev/null: Path is left unset.
DeletedFile ==
    [ Path |-> "", Hunks |-> 1 ]

FileLists ==
    UNION { { [i \in 1..n |-> DiffFile(i, h[i])] : h \in [1..n -> {0, 1}] } : n \in 0..MaxFiles }
        \cup { << DeletedFile >>, << DiffFile(1, 1), DeletedFile >> }

\* The goroutines `go worker()` may start.
MaxConfigured ==
    CHOOSE m \in ConfiguredConcurrency : \A k \in ConfiguredConcurrency : k <= m

PoolSize ==
    IF MaxConfigured > DefaultMaxConcurrency THEN MaxConfigured ELSE DefaultMaxConcurrency

Workers == 1..PoolSize

NoResult == [ comments |-> << >>, err |-> "", file |-> 0, filePath |-> "" ]
NoError == [ file |-> 0, filePath |-> "", err |-> "" ]
NotGenerated == [ verdict |-> EmptyVerdict, err |-> "" ]
NotReturned == [ kind |-> "none", err |-> "", result |-> EmptyResult ]
NoProgress == [ Completed |-> 0, Total |-> 0, CurrentFile |-> "", Failed |-> 0, LastError |-> "" ]

\* Two runs of the per-file loop and of dedupeComments.
Runs == {1, 2}

NotDeduped == [ done |-> FALSE, comments |-> << >> ]

\* No per-file comment lists: dedupeComments is not being followed.
DedupeIdle ==
    /\ perFile = << >>
    /\ arrivedOf = [r \in Runs |-> {}]
    /\ collectedOf = [r \in Runs |-> << >>]
    /\ dedupedOf = [r \in Runs |-> NotDeduped]

\* var currentFile *DiffFile: nil.
NilFile == [ nil |-> TRUE, Path |-> << >>, Hunks |-> << >> ]

NotParsed == [ kind |-> "none", err |-> "", files |-> << >> ]

\* ParseUnifiedDiff at its first statement, for the text made of the lines d.
ParseAt(d) ==
    /\ diff = d
    /\ ppc = "entry"
    /\ scanned = 0
    /\ diffFiles = << >>
    /\ currentFile = NilFile
    /\ currentHunk = 0
    /\ oldLine = 0
    /\ newLine = 0
    /\ parseRet = NotParsed

\* No diff text: ParseUnifiedDiff is not being followed.
DiffIdle ==
    ParseAt(<< >>)

NoHeader == [ oldStart |-> 0, oldLines |-> << >>, newStart |-> 0, newLines |-> << >>,
              section |-> FALSE ]

NotCalled == [ done |-> FALSE, err |-> "", oldStart |-> 0, oldLines |-> 0,
               newStart |-> 0, newLines |-> 0 ]

\* No header line: parseHunkHeader is not being followed.
HunkIdle ==
    /\ header = NoHeader
    /\ hunkRet = NotCalled


NoRequest == [ apiKey |-> "", model |-> "", messages |-> 0 ]

NoContent == [ done |-> FALSE, content |-> "", err |-> "" ]

\* ChatCompletion at its first statement, called with the request q.
ChatAt(q) ==
    /\ chatReq = q
    /\ chatPc = "entry"
    /\ chatCtx = FALSE
    /\ attempt = 0
    /\ served = << >>
    /\ timer = 0
    /\ lastErr = ""
    /\ chatRet = NoContent

\* No request: ChatCompletion is not being followed.
ChatIdle ==
    ChatAt(NoRequest)


Calls == {1, 2}

NotHashed == [ done |-> FALSE, hashed |-> FALSE, digest |-> << >>, err |-> "" ]

\* No call of HashGuidelines is being followed.
HashIdle ==
    /\ hashPaths = [k \in Calls |-> << >>]
    /\ hashFree = ""
    /\ unreadable = {}
    /\ hashRet = [k \in Calls |-> NotHashed]


Reviews == {1, 2}

\* NewModel: the wizard is shown, nothing is loaded, no review was started.
NewModel ==
    [ inWizard |-> TRUE, active |-> 1, showHelp |-> FALSE,
      commentsFilterActive |-> FALSE, reviewRunning |-> FALSE,
      publishRunning |-> FALSE, cancel |-> 0, reviewUpdates |-> 0,
      reviewResult |-> 0, reviewErr |-> FALSE, diff |-> "none" ]

\* The program with the key setting k, before any key is pressed.
UiAt(k) ==
    /\ ui = NewModel
    /\ keyOK = k
    /\ pressed = 0
    /\ lastKey = ""
    /\ quit = FALSE
    /\ inbox = {}
    /\ launched = 0
    /\ gpc = [r \in Reviews |-> "none"]
    /\ runErr = [r \in Reviews |-> FALSE]
    /\ listening = {}
    /\ ctxDone = {}

\* The dashboard is not being followed.
UiIdle ==
    UiAt(FALSE)


NoResponse == [ json |-> FALSE, comments |-> << >> ]

NotParsedYet == [ done |-> FALSE, comments |-> << >>, err |-> "" ]

\* No response: parseFileComments is not being followed.
ParseIdle ==
    /\ answer = NoResponse
    /\ parsedOut = NotParsedYet


NoDiffFile == [ Path |-> << >>, Hunks |-> << >> ]

\* No file: RenderUnifiedDiffFile is not being followed.
RenderIdle ==
    rfile = NoDiffFile


NoReply == [ before |-> << >>, open |-> << >>, inner |-> << >>, close |-> << >> ]

NotStripped == [ done |-> FALSE, text |-> << >> ]

\* No content: stripCodeFence is not being followed.
FenceIdle ==
    /\ reply = NoReply
    /\ stripRet = NotStripped


\* The Model of a wizard at its first step. failed: m.err is set;
\* environmentKey: OPENROUTER_API_KEY is set; last: cfg.LastModel.
WizardModelOf(failed, environmentKey, last) ==
    [ inWizard |-> TRUE, quit |-> FALSE, err |-> failed, wizardStep |-> "wizardRepo",
      cursor |-> 0, branchFilterInput |-> "", baseBranch |-> "", branch |-> "",
      modelCursor |-> 0, LastModel |-> last, modelInput |-> "",
      guidelineCursor |-> 0, pathInput |-> "", keyInput |-> "",
      openRouterKey |-> "", environmentKey |-> environmentKey ]

\* No wizard is being followed.
WizardIdle ==
    /\ wiz = [WizardModelOf(FALSE, FALSE, "") EXCEPT !.inWizard = FALSE]
    /\ wizKey = ""
    /\ wizFrom = ""

\* Run at its first statement, called with the files fs and the options o.
RunAt(fs, o, g) ==
    /\ files = fs
    /\ opts = o
    /\ guidelinesOK = g
    /\ cancelled = FALSE
    /\ cancelAt = ""
    /\ pc = "entry"
    /\ dpc = "none"
    /\ jobsNext = 1
    /\ jobsClosed = FALSE
    /\ wpc = [w \in Workers |-> "none"]
    /\ wresult = [w \in Workers |-> NoResult]
    /\ current = NoResult
    /\ completed = 0
    /\ firstErr = NoError
    /\ collected = << >>
    /\ deduped = << >>
    /\ verdictCalls = 0
    /\ generated = NotGenerated
    /\ calls = [i \in 1..Len(files) |-> 0]
    /\ dispatched = [i \in 1..Len(files) |-> 0]
    /\ resolved = [i \in 1..Len(files) |-> 0]
    /\ ret = NotReturned
    /\ update = NoProgress
    /\ notices = [i \in 1..Len(files) |-> 0]
    /\ failedSoFar = 0
    /\ droppedEntries = 0

\* No files: Run is not being followed.
RunIdle ==
    RunAt(<< >>, [ MaxConcurrency |-> DefaultMaxConcurrency ], TRUE)

Init ==
    /\ \E fs \in FileLists, o \in [ MaxConcurrency : ConfiguredConcurrency ], g \in BOOLEAN :
          RunAt(fs, o, g)
    /\ WizardIdle
    /\ FenceIdle
    /\ RenderIdle
    /\ ParseIdle
    /\ UiIdle
    /\ HashIdle
    /\ ChatIdle
    /\ DedupeIdle
    /\ DiffIdle
    /\ HunkIdle

\* ------------------------------------------------------------------ Run
\* The default applied whatever the caller configured.
AlwaysDefaultConcurrency(maxConcurrency) ==
    DefaultMaxConcurrency

\* if opts.MaxConcurrency <= 0 { opts.MaxConcurrency = 3 }
EffectiveConcurrency(maxConcurrency) ==
    IF maxConcurrency <= 0 THEN DefaultMaxConcurrency ELSE maxConcurrency

\* Run without its no-files check.
NoFilesNever(fs) ==
    FALSE

\* if len(files) == 0 { return Result{}, errors.New("no diff files to review") }
NoFiles(fs) ==
    Len(fs) = 0

\* Run's entry: the no-files check, the defaults, the guidelines, and the start
\* of the workers and of the dispatcher.
RunEntry ==
    /\ pc = "entry"
    /\ IF NoFiles(files)
       THEN /\ ret' = [ kind |-> "error", err |-> "no diff files to review",
                        result |-> EmptyResult ]
            /\ pc' = "returned"
            /\ UNCHANGED << opts, wpc, dpc >>
       ELSE /\ opts' = [opts EXCEPT !.MaxConcurrency = EffectiveConcurrency(@)]
            /\ IF ~guidelinesOK
               THEN /\ ret' = [ kind |-> "error", err |-> "guidelines",
                                result |-> EmptyResult ]
                    /\ pc' = "returned"
                    /\ UNCHANGED << wpc, dpc >>
               ELSE /\ wpc' = [w \in Workers |->
                                 IF w <= opts'.MaxConcurrency THEN "ranging" ELSE "none"]
                    /\ dpc' = "sending"
                    /\ pc' = "recv"
                    /\ ret' = ret
    /\ UNCHANGED << notRunVars, update, notices, failedSoFar, droppedEntries,
                    files, guidelinesOK, cancelled, cancelAt, jobsNext, jobsClosed, wresult,
                    current, completed, firstErr, collected, deduped, verdictCalls, generated,
                    calls, dispatched, resolved >>

\* The worker without its shortcut for a file that has no hunks.
NeedsBackendAlways(file) ==
    TRUE

\* if len(file.Hunks) == 0 { results <- ...; continue }
NeedsBackend(file) ==
    file.Hunks # 0

\* for _, file := range files { jobs <- file }
AfterJob(index) ==
    index + 1

\* The dispatcher's `jobs <- file` meeting one worker's `for file := range
\* jobs`; the worker renders the file, builds the prompt and invokes
\* ChatCompletion, or builds the empty result of a file without hunks.
TakeJob(w) ==
    /\ dpc = "sending"
    /\ wpc[w] = "ranging"
    /\ jobsNext <= Len(files)
    /\ LET i == jobsNext
           file == files[i]
       IN  /\ dispatched' = [dispatched EXCEPT ![i] = @ + 1]
           /\ jobsNext' = AfterJob(i)
           /\ dpc' = IF jobsNext' > Len(files) THEN "closing" ELSE "sending"
           /\ IF NeedsBackend(file)
              THEN /\ wpc' = [wpc EXCEPT ![w] = "calling"]
                   /\ wresult' = [wresult EXCEPT ![w] =
                                     [ comments |-> << >>, err |-> "", file |-> i,
                                       filePath |-> file.Path ]]
                   /\ calls' = [calls EXCEPT ![i] = @ + 1]
              ELSE /\ wpc' = [wpc EXCEPT ![w] = "sending"]
                   /\ wresult' = [wresult EXCEPT ![w] =
                                     [ comments |-> << >>, err |-> "", file |-> i,
                                       filePath |-> file.Path ]]
                   /\ calls' = calls
    /\ UNCHANGED << notRunVars, update, notices, failedSoFar, droppedEntries,
                    files, opts, guidelinesOK, cancelled, cancelAt, pc, jobsClosed, current,
                    completed, firstErr, collected, deduped, verdictCalls, generated, resolved, ret >>

\* close(jobs)
CloseJobs ==
    /\ dpc = "closing"
    /\ dpc' = "done"
    /\ jobsClosed' = TRUE
    /\ UNCHANGED << notRunVars, update, notices, failedSoFar, droppedEntries,
                    files, opts, guidelinesOK, cancelled, cancelAt, pc, jobsNext, wpc, wresult,
                    current, completed, firstErr, collected, deduped, verdictCalls, generated,
                    calls, dispatched, resolved, ret >>

\* `for file := range jobs` ends once jobs is closed.
WorkerExit(w) ==
    /\ wpc[w] = "ranging"
    /\ jobsClosed
    /\ wpc' = [wpc EXCEPT ![w] = "done"]
    /\ UNCHANGED << notRunVars, update, notices, failedSoFar, droppedEntries,
                    files, opts, guidelinesOK, cancelled, cancelAt, pc, dpc, jobsNext,
                    jobsClosed, wresult, current, completed, firstErr, collected,
                    deduped, verdictCalls, generated, calls, dispatched, resolved,
                    ret >>

\* What ChatCompletion may return: an error at any time, and content only while
\* ctx is not cancelled (a cancelled ctx fails the request and the backoff).
ChatOutcomes(contents) ==
    { [ err |-> "backend", content |-> c ] : c \in {CHOOSE c \in contents : ~c.json} }
    \cup IF cancelled THEN {}
         ELSE { [ err |-> "", content |-> c ] : c \in contents }

\* The fileReviewResult the worker builds from ChatCompletion's return.
FileResult(w, outcome) ==
    IF outcome.err # ""
    THEN [ comments |-> << >>, err |-> outcome.err, file |-> wresult[w].file,
           filePath |-> wresult[w].filePath ]
    ELSE LET parsed == parseFileComments(outcome.content)
         IN  [ comments |-> parsed.comments, err |-> parsed.err,
               file |-> wresult[w].file, filePath |-> wresult[w].filePath ]

\* ChatCompletion returns to the worker, which parses the content.
ChatReturn(w) ==
    /\ wpc[w] = "calling"
    /\ \E outcome \in ChatOutcomes(FileContents) :
          /\ wresult' = [wresult EXCEPT ![w] = FileResult(w, outcome)]
          /\ droppedEntries' = droppedEntries +
                 (IF outcome.err = "" /\ outcome.content.json
                  THEN LeftOut(outcome.content.comments) ELSE 0)
    /\ wpc' = [wpc EXCEPT ![w] = "sending"]
    /\ UNCHANGED << notRunVars, update, notices, failedSoFar,
                    files, opts, guidelinesOK, cancelled, cancelAt, pc, dpc, jobsNext,
                    jobsClosed, current, completed, firstErr, collected, deduped,
                    verdictCalls, generated, calls, dispatched, resolved, ret >>

\* The loop test with an off-by-one: the loop stops one result early.
LoopStopsOneEarly(done, total) ==
    done + 1 < total

\* for completed < total
LoopContinues(done, total) ==
    done < total

\* progress(...) called before completed++.
ProgressBeforeIncrement(done, total, result) ==
    [ Completed |-> done - 1, Total |-> total, CurrentFile |-> result.filePath,
      Failed |-> 0, LastError |-> "" ]

\* Progress{Completed: completed, Total: total, CurrentFile: result.filePath}:
\* the literal sets nothing else, so the Failed and LastError that the
\* callback of startReviewCmd copies into its message are zero values.
ProgressOf(done, total, result) ==
    [ Completed |-> done, Total |-> total, CurrentFile |-> result.filePath,
      Failed |-> 0, LastError |-> "" ]

\* The file a path names.
FileNamed(path) ==
    CHOOSE i \in 1..Len(files) : files[i].Path = path

\* A worker that returns after it has sent the result of a failed call.
ReturnsAfterError(result) ==
    IF result.err # "" THEN "done" ELSE "ranging"

\* After either `results <- ...` the worker is back at `for file := range
\* jobs`: the error branch ends with `continue`.
AfterSend(result) ==
    "ranging"

\* A worker's `results <- ...` meeting Run's `result := <-results`; completed++
\* and the call of progress(...).
Receive(w) ==
    /\ pc = "recv"
    /\ wpc[w] = "sending"
    /\ current' = wresult[w]
    /\ completed' = completed + 1
    /\ resolved' = [resolved EXCEPT ![wresult[w].file] = @ + 1]
    /\ wpc' = [wpc EXCEPT ![w] = AfterSend(wresult[w])]
    /\ wresult' = [wresult EXCEPT ![w] = NoResult]
    /\ pc' = "progress"
    /\ update' = ProgressOf(completed', Len(files), current')
    /\ notices' = [notices EXCEPT ![FileNamed(update'.CurrentFile)] = @ + 1]
    /\ failedSoFar' = failedSoFar + (IF current'.err # "" THEN 1 ELSE 0)
    /\ UNCHANGED << notRunVars, droppedEntries,
                    files, opts, guidelinesOK, cancelled, cancelAt, dpc, jobsNext, jobsClosed,
                    firstErr, collected, deduped, verdictCalls, generated, calls, dispatched, ret >>

\* if result.err != nil && firstErr == nil { firstErr = ... }
NextFirstErr(first, result) ==
    IF result.err # "" /\ first.err = ""
    THEN [ file |-> result.file, filePath |-> result.filePath, err |-> result.err ]
    ELSE first

\* The loop left as soon as a result carries an error.
LoopAbortsOnError(done, total, first) ==
    IF done < total /\ first.err = "" THEN "recv" ELSE "compose"

\* Where Run goes after a loop body: back to `<-results` while completed <
\* total, and on to the code after the loop otherwise; firstErr is not looked at.
AfterLoopBody(done, total, first) ==
    IF LoopContinues(done, total) THEN "recv" ELSE "compose"

\* The rest of the loop body once progress(...) has returned.
AfterProgress ==
    /\ firstErr' = NextFirstErr(firstErr, current)
    /\ collected' = collected \o current.comments
    /\ pc' = AfterLoopBody(completed, Len(files), firstErr')
    /\ current' = NoResult
    /\ update' = NoProgress
    /\ UNCHANGED << notRunVars, notices, failedSoFar, droppedEntries,
                    files, opts, guidelinesOK, cancelled, cancelAt, dpc, jobsNext, jobsClosed,
                    wpc, wresult, completed, deduped, verdictCalls, generated, calls,
                    dispatched, resolved, ret >>

\* progress(...) is the callback of startReviewCmd: a select between
\* <-ctx.Done() and a send on the unbuffered updates channel. Here the
\* consumer (listenReviewCmd) receives the update.
ProgressConsumed ==
    /\ pc = "progress"
    /\ AfterProgress

\* The callback's `case <-ctx.Done(): return`.
ProgressAbandoned ==
    /\ pc = "progress"
    /\ cancelled
    /\ AfterProgress

\* ruleDecision := DecisionGo; if stats.Blocker > 0 { ruleDecision = DecisionNoGo }
RuleDecision(stats) ==
    IF stats.Blocker > 0 THEN DecisionNoGo ELSE DecisionGo

\* if firstErr != nil { return Result{}, firstErr }
RunFails(first) ==
    first.err # ""

\* After the loop: the firstErr return, or dedupeComments and the invocation
\* of ChatCompletion by generateVerdict.
Compose ==
    /\ pc = "compose"
    /\ IF RunFails(firstErr)
       THEN /\ ret' = [ kind |-> "error", err |-> "review failed",
                        result |-> EmptyResult ]
            /\ pc' = "returned"
            /\ UNCHANGED << deduped, verdictCalls >>
       ELSE /\ deduped' \in dedupeComments(collected)
            /\ verdictCalls' = verdictCalls + 1
            /\ pc' = "verdict"
            /\ ret' = ret
    /\ UNCHANGED << notRunVars, update, notices, failedSoFar, droppedEntries,
                    files, opts, guidelinesOK, cancelled, cancelAt, dpc,
                    jobsNext, jobsClosed, wpc, wresult, current, completed, firstErr,
                    collected, generated, calls, dispatched, resolved >>

\* generateVerdict: (Verdict, error) from ChatCompletion's return.
generateVerdict(outcome, stats) ==
    IF outcome.err # ""
    THEN [ verdict |-> EmptyVerdict, err |-> outcome.err ]
    ELSE IF ~outcome.content.json
    THEN [ verdict |-> EmptyVerdict, err |-> "decode" ]
    ELSE [ verdict |-> [ Decision  |-> NormalizeDecision(outcome.content.decision),
                         Summary   |-> TrimSpace(outcome.content.summary),
                         Rationale |-> outcome.content.rationale,
                         Stats     |-> stats ],
           err |-> "" ]

\* A fallback whose Stats keep their zero value.
FallbackVerdictNoStats(ruleDecision, stats) ==
    [ Decision  |-> ruleDecision,
      Summary   |-> "Verdict unavailable due to parsing error.",
      Rationale |-> << "Defaulted to rule-based decision." >>,
      Stats     |-> ComputeStats(<< >>) ]

\* A fallback that does not look at the rule decision.
FallbackVerdictAlwaysGo(ruleDecision, stats) ==
    [ Decision  |-> DecisionGo,
      Summary   |-> "Verdict unavailable due to parsing error.",
      Rationale |-> << "Defaulted to rule-based decision." >>,
      Stats     |-> stats ]

\* The verdict Run builds when generateVerdict returned an error.
FallbackVerdict(ruleDecision, stats) ==
    [ Decision  |-> ruleDecision,
      Summary   |-> "Verdict unavailable due to parsing error.",
      Rationale |-> << "Defaulted to rule-based decision." >>,
      Stats     |-> stats ]

\* A reconciliation in which the model's decision wins.
FinalDecisionOfModel(ruleDecision, modelDecision) ==
    modelDecision

\* if ruleDecision == DecisionNoGo || verdict.Decision == DecisionNoGo
FinalDecision(ruleDecision, modelDecision) ==
    IF ruleDecision = DecisionNoGo \/ modelDecision = DecisionNoGo
    THEN DecisionNoGo
    ELSE modelDecision

\* The verdict Run builds when generateVerdict returned a verdict.
ReconciledVerdict(verdict, ruleDecision, stats) ==
    [ verdict EXCEPT
        !.Decision = FinalDecision(ruleDecision, verdict.Decision),
        !.Stats = stats,
        !.Summary = IF TrimSpace(verdict.Summary) = ""
                    THEN "Summary unavailable." ELSE verdict.Summary ]

\* The verdict of the Result, from generateVerdict's return.
RunVerdict(returned, ruleDecision, stats) ==
    IF returned.err # ""
    THEN FallbackVerdict(ruleDecision, stats)
    ELSE ReconciledVerdict(returned.verdict, ruleDecision, stats)

\* generateVerdict's ChatCompletion returns; Run builds the verdict and
\* returns the Result.
VerdictReturn ==
    /\ pc = "verdict"
    /\ \E outcome \in ChatOutcomes(VerdictContents) :
          LET stats == ComputeStats(deduped)
          IN  /\ generated' = generateVerdict(outcome, stats)
              /\ ret' = [ kind |-> "result", err |-> "",
                          result |-> ResultOf(deduped,
                                       RunVerdict(generated', RuleDecision(stats), stats)) ]
    /\ pc' = "returned"
    /\ UNCHANGED << notRunVars, update, notices, failedSoFar, droppedEntries,
                    files, opts, guidelinesOK, cancelled, cancelAt, dpc,
                    jobsNext, jobsClosed, wpc, wresult, current, completed, firstErr,
                    collected, deduped, verdictCalls, calls, dispatched, resolved >>

\* The part of Run its goroutine is in: the per-file loop or the verdict.
PhaseOf(at) ==
    CASE at = "entry" -> "entry"
      [] at \in {"recv", "progress"} -> "files"
      [] OTHER -> "verdict"

\* The cancel function of the run's context is called (Esc, Ctrl+C).
Cancel ==
    /\ ~cancelled
    /\ pc # "returned"
    /\ cancelled' = TRUE
    /\ cancelAt' = PhaseOf(pc)
    /\ UNCHANGED << notRunVars, update, notices, failedSoFar, droppedEntries,
                    files, opts, guidelinesOK, pc, dpc, jobsNext,
                    jobsClosed, wpc, wresult, current, completed, firstErr, collected,
                    deduped, verdictCalls, generated, calls, dispatched, resolved,
                    ret >>

Next ==
    \/ RunEntry
    \/ \E w \in Workers : TakeJob(w)
    \/ CloseJobs
    \/ \E w \in Workers : WorkerExit(w)
    \/ \E w \in Workers : ChatReturn(w)
    \/ \E w \in Workers : Receive(w)
    \/ ProgressConsumed
    \/ ProgressAbandoned
    \/ Compose
    \/ VerdictReturn
    \/ Cancel

Spec == Init /\ [][Next]_vars

\* ------------------------------------- dedupeComments over per-file lists
\* Files whose comments are collected.
MaxLists == 2

\* What parseFileComments may return for a file.
CommentLists ==
    { KeepValid(<< EntryLeak >>),
      KeepValid(<< EntryLeakAgain, EntryNit >>),
      KeepValid(<< EntryNit, EntryBadRange >>),
      KeepValid(<< EntryLeakIssue, EntryLeakAgain >>) }

PerFileLists ==
    UNION { [1..n -> CommentLists] : n \in 1..MaxLists }

\* Two runs that are given the same per-file comment lists.
DedupeInit ==
    /\ RunIdle
    /\ WizardIdle
    /\ FenceIdle
    /\ RenderIdle
    /\ ParseIdle
    /\ UiIdle
    /\ HashIdle
    /\ ChatIdle
    /\ DiffIdle
    /\ HunkIdle
    /\ perFile \in PerFileLists
    /\ arrivedOf = [r \in Runs |-> {}]
    /\ collectedOf = [r \in Runs |-> << >>]
    /\ dedupedOf = [r \in Runs |-> NotDeduped]

\* collected = append(collected, result.comments...) for the result of file
\* i, received in whatever order the workers send.
Arrive(r, i) ==
    /\ i \in (1..Len(perFile)) \ arrivedOf[r]
    /\ arrivedOf' = [arrivedOf EXCEPT ![r] = @ \cup {i}]
    /\ collectedOf' = [collectedOf EXCEPT ![r] = @ \o perFile[i]]
    /\ UNCHANGED << perFile, dedupedOf, notDedupeVars >>

\* deduped := dedupeComments(collected), once the loop has ended.
Dedupe(r) ==
    /\ arrivedOf[r] = 1..Len(perFile)
    /\ ~dedupedOf[r].done
    /\ \E out \in dedupeComments(collectedOf[r]) :
          dedupedOf' = [dedupedOf EXCEPT ![r] = [ done |-> TRUE, comments |-> out ]]
    /\ UNCHANGED << perFile, arrivedOf, collectedOf, notDedupeVars >>

DedupeNext ==
    \/ \E r \in Runs, i \in 1..MaxLists : Arrive(r, i)
    \/ \E r \in Runs : Dedupe(r)

SpecDedupe == DedupeInit /\ [][DedupeNext]_vars

\* -------------------------------------------------------- ParseUnifiedDiff
\* Text is a sequence of one-character strings, a diff a sequence of lines.
HasPrefix(s, prefix) ==
    Len(s) >= Len(prefix) /\ SubSeq(s, 1, Len(prefix)) = prefix

TrimPrefix(s, prefix) ==
    IF HasPrefix(s, prefix) THEN SubSeq(s, Len(prefix) + 1, Len(s)) ELSE s

HasSuffix(s, suffix) ==
    Len(s) >= Len(suffix) /\ SubSeq(s, Len(s) - Len(suffix) + 1, Len(s)) = suffix

TrimSuffix(s, suffix) ==
    IF HasSuffix(s, suffix) THEN SubSeq(s, 1, Len(s) - Len(suffix)) ELSE s

IsSpace(ch) ==
    ch \in {" ", "\t", "\n", "\r"}

RECURSIVE TrimLeft(_)
TrimLeft(s) ==
    IF s # << >> /\ IsSpace(Head(s)) THEN TrimLeft(Tail(s)) ELSE s

RECURSIVE TrimRight(_)
TrimRight(s) ==
    IF s # << >> /\ IsSpace(s[Len(s)]) THEN TrimRight(SubSeq(s, 1, Len(s) - 1)) ELSE s

\* strings.TrimSpace on text.
TrimSpaceText(s) ==
    TrimRight(TrimLeft(s))

\* strings.Split(s, sep) for a separator of one character.
RECURSIVE Split(_, _)
Split(s, sep) ==
    IF \A i \in 1..Len(s) : s[i] # sep THEN << s >>
    ELSE LET k == CHOOSE i \in 1..Len(s) : s[i] = sep /\ \A j \in 1..(i - 1) : s[j] # sep
         IN  << SubSeq(s, 1, k - 1) >> \o Split(SubSeq(s, k + 1, Len(s)), sep)

Digits == << "0", "1", "2", "3", "4", "5", "6", "7", "8", "9" >>

IsDigit(ch) ==
    \E d \in 1..Len(Digits) : Digits[d] = ch

DigitValue(ch) ==
    (CHOOSE d \in 1..Len(Digits) : Digits[d] = ch) - 1

RECURSIVE Decimal(_)
Decimal(s) ==
    IF s = << >> THEN 0
    ELSE 10 * Decimal(SubSeq(s, 1, Len(s) - 1)) + DigitValue(s[Len(s)])

\* strconv.Atoi: an optional sign and decimal digits.
Atoi(s) ==
    LET signed == s # << >> /\ Head(s) \in {"+", "-"}
        digits == IF signed THEN Tail(s) ELSE s
    IN  IF digits = << >> \/ \E i \in 1..Len(digits) : ~IsDigit(digits[i])
        THEN [ ok |-> FALSE, value |-> 0 ]
        ELSE [ ok |-> TRUE,
               value |-> IF signed /\ Head(s) = "-" THEN 0 - Decimal(digits)
                         ELSE Decimal(digits) ]

\* A parseRange whose omitted count is 0.
parseRangeOmittedIsZero(value) ==
    LET v == TrimPrefix(TrimPrefix(value, << "-" >>), << "+" >>)
        parts == Split(v, ",")
        start == Atoi(parts[1])
        lines == IF Len(parts) > 1 THEN Atoi(parts[2]) ELSE [ ok |-> TRUE, value |-> 0 ]
    IN  IF ~start.ok \/ ~lines.ok
        THEN [ err |-> "atoi", start |-> 0, lines |-> 0 ]
        ELSE [ err |-> "", start |-> start.value, lines |-> lines.value ]

\* parseRange: (start, lines, err); lines is 1 when the count is omitted.
parseRange(value) ==
    LET v == TrimPrefix(TrimPrefix(value, << "-" >>), << "+" >>)
        parts == Split(v, ",")
        start == Atoi(parts[1])
        lines == IF Len(parts) > 1 THEN Atoi(parts[2]) ELSE [ ok |-> TRUE, value |-> 1 ]
    IN  IF ~start.ok \/ ~lines.ok
        THEN [ err |-> "atoi", start |-> 0, lines |-> 0 ]
        ELSE [ err |-> "", start |-> start.value, lines |-> lines.value ]

HunkMarker == << "@", "@" >>

NoHunk(err) ==
    [ err |-> err, header |-> << >>, oldStart |-> 0, oldLines |-> 0,
      newStart |-> 0, newLines |-> 0 ]

\* A parseHunkHeader that reports no error.
parseHunkHeaderNoError(line) ==
    NoHunk("")

\* parseHunkHeader: (header, oldStart, oldLines, newStart, newLines, err).
parseHunkHeader(line) ==
    LET trimmed == TrimSpaceText(TrimSuffix(TrimPrefix(line, HunkMarker), HunkMarker))
        parts == Split(trimmed, " ")
        old == parseRange(parts[1])
        new == parseRange(parts[2])
    IN  IF Len(parts) < 2 THEN NoHunk("invalid hunk header")
        ELSE IF old.err # "" THEN NoHunk(old.err)
        ELSE IF new.err # "" THEN NoHunk(new.err)
        ELSE [ err |-> "", header |-> line, oldStart |-> old.start,
               oldLines |-> old.lines, newStart |-> new.start, newLines |-> new.lines ]

DiffLineContext == 0
DiffLineAdd == 1
DiffLineDel == 2

DiffGitPrefix == << "d", "i", "f", "f", " ", "-", "-", "g", "i", "t", " " >>
NewPathPrefix == << "+", "+", "+", " " >>
NewSidePrefix == << "b", "/" >>
DevNull == << "/", "d", "e", "v", "/", "n", "u", "l", "l" >>
NoNewlineMarker == << "\\", " ", "N", "o", " ", "n", "e", "w", "l", "i", "n", "e", " ", "a", "t", " ", "e", "n", "d", " ", "o", "f", " ", "f", "i", "l", "e" >>

\* The lines the diffs of the model are made of.
LineGit == << "d", "i", "f", "f", " ", "-", "-", "g", "i", "t", " ", "a", "/", "x", " ", "b", "/", "x" >>
LinePath == << "+", "+", "+", " ", "b", "/", "x" >>
LineHunk == << "@", "@", " ", "-", "1", ",", "2", " ", "+", "3", " ", "@", "@" >>
LineAdd == << "+", "a" >>
LineDel == << "-", "b" >>
LineContext == << " ", "c" >>

DiffLines ==
    { LineGit, LinePath, LineHunk, LineAdd, LineDel, LineContext }

\* Lines of a diff.
MaxDiffLines == 5

\* Lines of whitespace, and the line of a text that is one line break.
LineBlank == << " " >>
LineTabs == << "\t", " " >>
LineEmpty == << >>

BlankDiffs ==
    { << LineBlank >>, << LineBlank, LineTabs >>, << LineEmpty, LineBlank >> }

\* Hunk headers with one token, with a start and with a count that is no number.
LineFewTokens == << "@", "@", " ", "-", "1", " ", "@", "@" >>
LineBadStart == << "@", "@", " ", "-", "x", " ", "+", "1", " ", "@", "@" >>
LineBadCount == << "@", "@", " ", "-", "1", ",", "y", " ", "+", "1", " ", "@", "@" >>

BadHunkLines ==
    { LineFewTokens, LineBadStart, LineBadCount }

DiffsWithBadHunk ==
    UNION { { << LineGit, LinePath, LineHunk, LineAdd, LineGit, bad >>,
              << LineGit, bad, LineAdd >>,
              << LineGit, LineHunk, bad, LineGit >> } : bad \in BadHunkLines }

\* A second path, and the new-path line of a deleted file.
LineOtherPath == << "+", "+", "+", " ", "b", "/", "y" >>
LineDevNull == << "+", "+", "+", " ", "/", "d", "e", "v", "/", "n", "u", "l", "l" >>

PathDiffs ==
    { << LineGit, LinePath, LineHunk, LineAdd, LineGit, LineOtherPath, LineHunk, LineDel >>,
      << LineGit, LineOtherPath, LineGit, LinePath, LineHunk, LineContext >>,
      << LineGit, LineOtherPath, LineHunk, LinePath >>,
      << LineGit, LineDevNull, LineHunk, LineDel >>,
      << LineGit, LinePath, LineGit, LineDevNull, LineHunk, LineDel, LineDel >> }

\* A line git writes between the sections' headers, which begins with none
\* of '+', '-' and space.
LineIndex == << "i", "n", "d", "e", "x", " ", "1" >>

\* Hunks with lines between the body lines that are no body line: the marker
\* of a missing line break, a line of another form, an empty line.
DiffsWithSkippedLines ==
    { << LineGit, LinePath, LineHunk, LineDel, first, LineAdd, second, LineContext >> :
        first, second \in { NoNewlineMarker, LineIndex, LineEmpty } }

Diffs ==
    UNION { [1..n -> DiffLines] : n \in 0..MaxDiffLines }
        \cup BlankDiffs \cup DiffsWithBadHunk \cup PathDiffs \cup DiffsWithSkippedLines

DiffInit ==
    /\ RunIdle
    /\ WizardIdle
    /\ FenceIdle
    /\ RenderIdle
    /\ ParseIdle
    /\ UiIdle
    /\ HashIdle
    /\ ChatIdle
    /\ DedupeIdle
    /\ HunkIdle
    /\ \E d \in Diffs : ParseAt(d)

\* The test without strings.TrimSpace: diff == "".
DiffIsEmptyString(d) ==
    d = << >>

\* strings.TrimSpace(diff) == "" for the text whose lines are d.
DiffIsBlank(d) ==
    \A i \in 1..Len(d) : TrimSpaceText(d[i]) = << >>

\* ParseUnifiedDiff's first statement: the empty-diff error.
ParseEntry ==
    /\ ppc = "entry"
    /\ IF DiffIsBlank(diff)
       THEN /\ parseRet' = [ kind |-> "error", err |-> "diff is empty", files |-> << >> ]
            /\ ppc' = "returned"
       ELSE /\ ppc' = "scan"
            /\ parseRet' = parseRet
    /\ UNCHANGED << diff, scanned, diffFiles, currentFile, currentHunk, oldLine, newLine,
                    notDiffVars >>

\* The DiffFile that flushFile appends.
FileValue(file) ==
    [ Path |-> file.Path, Hunks |-> file.Hunks ]

\* flushFile's effect on files.
flushFile(fs, file) ==
    IF ~file.nil THEN Append(fs, FileValue(file)) ELSE fs

\* The path a "+++ " line names.
PathOf(line) ==
    TrimPrefix(TrimSpaceText(TrimPrefix(line, NewPathPrefix)), NewSidePrefix)

\* The kind of a hunk body line, by its first character; -1 for a line that
\* matches no case of the switch.
\* A switch whose lines of no known form, unless empty, count as context
\* lines.
KindOfDefaultContext(line) ==
    CASE HasPrefix(line, << "+" >>) -> DiffLineAdd
      [] HasPrefix(line, << "-" >>) -> DiffLineDel
      [] line = << >> -> -1
      [] OTHER -> DiffLineContext

KindOf(line) ==
    IF HasPrefix(line, << "+" >>) THEN DiffLineAdd
    ELSE IF HasPrefix(line, << "-" >>) THEN DiffLineDel
    ELSE IF HasPrefix(line, << " " >>) THEN DiffLineContext
    ELSE -1

\* The DiffLine appended for a body line of the given kind.
LineValue(kind, line, old, new) ==
    [ Kind    |-> kind,
      OldLine |-> IF kind = DiffLineAdd THEN 0 ELSE old,
      NewLine |-> IF kind = DiffLineDel THEN 0 ELSE new,
      Text    |-> Tail(line) ]

\* oldLine++ in the Del and Context cases.
NextOldLine(kind, old) ==
    IF kind \in {DiffLineDel, DiffLineContext} THEN old + 1 ELSE old

\* A new-side counter that only Add lines advance.
NextNewLineAddOnly(kind, new) ==
    IF kind = DiffLineAdd THEN new + 1 ELSE new

\* newLine++ in the Add and Context cases.
NextNewLine(kind, new) ==
    IF kind \in {DiffLineAdd, DiffLineContext} THEN new + 1 ELSE new

\* One round of `for scanner.Scan()`: the body of the loop for the next line.
ScanLine ==
    /\ ppc = "scan"
    /\ scanned < Len(diff)
    /\ scanned' = scanned + 1
    /\ LET line == TrimSuffix(diff[scanned + 1], << "\r" >>)
       IN  IF HasPrefix(line, DiffGitPrefix)
           THEN /\ diffFiles' = flushFile(diffFiles, currentFile)
                /\ currentFile' = [ nil |-> FALSE, Path |-> << >>, Hunks |-> << >> ]
                /\ currentHunk' = IF currentFile.nil THEN currentHunk ELSE 0
                /\ UNCHANGED << ppc, oldLine, newLine, parseRet >>
           ELSE IF currentFile.nil
           THEN UNCHANGED << ppc, diffFiles, currentFile, currentHunk, oldLine, newLine, parseRet >>
           ELSE IF HasPrefix(line, NewPathPrefix)
           THEN /\ currentFile' = IF PathOf(line) # DevNull
                                  THEN [currentFile EXCEPT !.Path = PathOf(line)]
                                  ELSE currentFile
                /\ UNCHANGED << ppc, diffFiles, currentHunk, oldLine, newLine, parseRet >>
           ELSE IF HasPrefix(line, HunkMarker)
           THEN LET parsed == parseHunkHeader(line)
                IN  IF parsed.err # ""
                    THEN /\ parseRet' = [ kind |-> "error", err |-> parsed.err, files |-> << >> ]
                         /\ ppc' = "returned"
                         /\ UNCHANGED << diffFiles, currentFile, currentHunk, oldLine, newLine >>
                    ELSE /\ currentFile' =
                               [currentFile EXCEPT !.Hunks =
                                   Append(@, [ Header   |-> parsed.header,
                                               OldStart |-> parsed.oldStart,
                                               OldLines |-> parsed.oldLines,
                                               NewStart |-> parsed.newStart,
                                               NewLines |-> parsed.newLines,
                                               Lines    |-> << >> ])]
                         /\ currentHunk' = Len(currentFile'.Hunks)
                         /\ oldLine' = parsed.oldStart
                         /\ newLine' = parsed.newStart
                         /\ UNCHANGED << ppc, diffFiles, parseRet >>
           ELSE IF currentHunk = 0 \/ line = NoNewlineMarker \/ KindOf(line) = -1
           THEN UNCHANGED << ppc, diffFiles, currentFile, currentHunk, oldLine, newLine, parseRet >>
           ELSE /\ currentFile' =
                      [currentFile EXCEPT !.Hunks[currentHunk].Lines =
                          Append(@, LineValue(KindOf(line), line, oldLine, newLine))]
                /\ oldLine' = NextOldLine(KindOf(line), oldLine)
                /\ newLine' = NextNewLine(KindOf(line), newLine)
                /\ UNCHANGED << ppc, diffFiles, currentHunk, parseRet >>
    /\ UNCHANGED << diff, notDiffVars >>

\* The scanner has no line left: flushFile() and return files, nil.
ScanEnd ==
    /\ ppc = "scan"
    /\ scanned = Len(diff)
    /\ diffFiles' = flushFile(diffFiles, currentFile)
    /\ currentFile' = NilFile
    /\ currentHunk' = IF currentFile.nil THEN currentHunk ELSE 0
    /\ parseRet' = [ kind |-> "files", err |-> "", files |-> diffFiles' ]
    /\ ppc' = "returned"
    /\ UNCHANGED << diff, scanned, oldLine, newLine, notDiffVars >>

DiffNext ==
    \/ ParseEntry
    \/ ScanLine
    \/ ScanEnd

SpecDiff == DiffInit /\ [][DiffNext]_vars

\* --------------------------------------------------------- parseHunkHeader
\* The decimal text of a number that is not negative.
RECURSIVE Itoa(_)
Itoa(n) ==
    IF n < 10 THEN << Digits[n + 1] >>
    ELSE Itoa(n \div 10) \o << Digits[(n % 10) + 1] >>

\* One side of a hunk header: the sign, the start and, unless it is omitted,
\* a comma and the count.
RangeText(sign, start, count) ==
    << sign >> \o Itoa(start)
        \o (IF count = << >> THEN << >> ELSE << "," >> \o Itoa(count[1]))

\* The line `@@ -a[,b] +c[,d] @@`, with or without the text of the enclosing
\* section that git writes after the second marker.
HeaderLine(h) ==
    HunkMarker \o << " " >> \o RangeText("-", h.oldStart, h.oldLines)
        \o << " " >> \o RangeText("+", h.newStart, h.newLines)
        \o << " " >> \o HunkMarker
        \o (IF h.section THEN << " ", "f", "(", ")" >> ELSE << >>)

HeaderNumbers == {0, 1, 5, 10, 12}

HeaderCounts ==
    {<< >>} \cup {<< n >> : n \in HeaderNumbers}

Headers ==
    [ oldStart : HeaderNumbers, oldLines : HeaderCounts,
      newStart : HeaderNumbers, newLines : HeaderCounts, section : BOOLEAN ]

HunkInit ==
    /\ RunIdle
    /\ WizardIdle
    /\ FenceIdle
    /\ RenderIdle
    /\ ParseIdle
    /\ UiIdle
    /\ HashIdle
    /\ ChatIdle
    /\ DedupeIdle
    /\ DiffIdle
    /\ header \in Headers
    /\ hunkRet = NotCalled

\* parseHunkHeader(line) for the line written from header.
ParseHeader ==
    /\ ~hunkRet.done
    /\ LET parsed == parseHunkHeader(HeaderLine(header))
       IN  hunkRet' = [ done |-> TRUE, err |-> parsed.err,
                        oldStart |-> parsed.oldStart, oldLines |-> parsed.oldLines,
                        newStart |-> parsed.newStart, newLines |-> parsed.newLines ]
    /\ UNCHANGED << header, notHunkVars >>

HunkNext ==
    ParseHeader

SpecHunk == HunkInit /\ [][HunkNext]_vars


\* ----------------------------------------------------------- ChatCompletion
\* for attempt := 0; attempt < 3; attempt++
MaxAttempts == 3

\* http.StatusTooManyRequests
StatusTooManyRequests == 429

ChatRequests ==
    [ apiKey : {"", " ", "sk"}, model : {"", "m"}, messages : {0, 1} ]

\* Status codes a response may carry.
Statuses == {200, 299, 300, 404, 429, 499, 500, 503}

\* Response bodies: text json.Unmarshal rejects, or the contents of the
\* choices of a decodable body.
NotJSONBody == [ json |-> FALSE, choices |-> << >> ]

Bodies ==
    { NotJSONBody } \cup [ json : {TRUE}, choices : {<< >>, << " " >>, << " fine " >>, << "", "fine" >>} ]

\* What one attempt meets: httpClient.Do fails, io.ReadAll fails, or a
\* response with a status and a body is read.
Responses ==
    [ kind : {"transport", "read"}, status : {0}, body : {NotJSONBody} ]
        \cup [ kind : {"http"}, status : Statuses, body : Bodies ]

\* A retry test that takes every client error for retryable.
RetryStatusFrom400(status) ==
    status >= 400

\* resp.StatusCode == http.StatusTooManyRequests || resp.StatusCode >= 500
RetryStatus(status) ==
    status = StatusTooManyRequests \/ status >= 500

\* doRequest: (content, retry, err).
doRequest(response) ==
    CASE response.kind = "transport" ->
            [ content |-> "", retry |-> TRUE, err |-> "transport" ]
      [] response.kind = "read" ->
            [ content |-> "", retry |-> FALSE, err |-> "read" ]
      [] response.status >= 300 ->
            [ content |-> "", retry |-> RetryStatus(response.status),
              err |-> "openrouter request failed" ]
      [] ~response.body.json ->
            [ content |-> "", retry |-> FALSE, err |-> "decode" ]
      [] Len(response.body.choices) = 0 ->
            [ content |-> "", retry |-> FALSE, err |-> "openrouter response missing choices" ]
      [] TrimSpace(response.body.choices[1]) = "" ->
            [ content |-> "", retry |-> FALSE, err |-> "openrouter response content is empty" ]
      [] OTHER ->
            [ content |-> TrimSpace(response.body.choices[1]), retry |-> FALSE, err |-> "" ]

ChatInit ==
    /\ RunIdle
    /\ WizardIdle
    /\ FenceIdle
    /\ RenderIdle
    /\ ParseIdle
    /\ UiIdle
    /\ HashIdle
    /\ DedupeIdle
    /\ DiffIdle
    /\ HunkIdle
    /\ \E q \in ChatRequests : ChatAt(q)

Returned(content, err) ==
    [ done |-> TRUE, content |-> content, err |-> err ]

\* The three checks of the request, json.Marshal and the start of the loop.
ChatEntry ==
    /\ chatPc = "entry"
    /\ IF TrimSpace(chatReq.apiKey) = ""
       THEN chatRet' = Returned("", "openrouter api key is missing") /\ chatPc' = "returned"
       ELSE IF TrimSpace(chatReq.model) = ""
       THEN chatRet' = Returned("", "openrouter model is required") /\ chatPc' = "returned"
       ELSE IF chatReq.messages = 0
       THEN chatRet' = Returned("", "openrouter messages are required") /\ chatPc' = "returned"
       ELSE chatRet' = chatRet /\ chatPc' = "request"
    /\ UNCHANGED << chatReq, chatCtx, attempt, served, timer, lastErr, notChatVars >>

\* What an attempt may meet: with ctx done, httpClient.Do fails.
Offered ==
    IF chatCtx THEN {r \in Responses : r.kind = "transport"} ELSE Responses

\* One pass of the loop body up to the timer: doRequest, and what follows it.
Attempt ==
    /\ chatPc = "request"
    /\ \E response \in Offered :
          LET got == doRequest(response)
          IN  /\ served' = Append(served, response)
              /\ IF got.err = ""
                 THEN /\ chatRet' = Returned(got.content, "")
                      /\ chatPc' = "returned"
                      /\ UNCHANGED << lastErr, timer >>
                 ELSE /\ lastErr' = got.err
                      /\ IF ~got.retry
                         THEN /\ chatRet' = Returned("", got.err)
                              /\ chatPc' = "returned"
                              /\ timer' = timer
                         ELSE /\ timer' = 500 * (attempt + 1)
                              /\ chatPc' = "backoff"
                              /\ chatRet' = chatRet
    /\ UNCHANGED << chatReq, chatCtx, attempt, notChatVars >>

\* A loop that goes round once more.
LoopGoesOnOnceMore(n) ==
    n <= MaxAttempts

\* attempt < 3, the test of the loop.
LoopGoesOn(n) ==
    n < MaxAttempts

\* case <-timer.C: attempt++ and the loop test; after the loop, lastErr.
\* The select is parked on a timer of 500 ms or more that was armed on the
\* line before it: the tick is the first event only while ctx is not done.
TimerFires ==
    /\ chatPc = "backoff"
    /\ ~chatCtx
    /\ attempt' = attempt + 1
    /\ timer' = 0
    /\ IF LoopGoesOn(attempt + 1)
       THEN chatPc' = "request" /\ chatRet' = chatRet
       ELSE chatPc' = "returned" /\ chatRet' = Returned("", lastErr)
    /\ UNCHANGED << chatReq, chatCtx, served, lastErr, notChatVars >>

\* case <-ctx.Done(): timer.Stop(); return "", ctx.Err()
BackoffCancelled ==
    /\ chatPc = "backoff"
    /\ chatCtx
    /\ timer' = 0
    /\ chatRet' = Returned("", "context canceled")
    /\ chatPc' = "returned"
    /\ UNCHANGED << chatReq, chatCtx, attempt, served, lastErr, notChatVars >>

\* The caller cancels ctx.
ChatCancel ==
    /\ chatPc # "returned"
    /\ ~chatCtx
    /\ chatCtx' = TRUE
    /\ UNCHANGED << chatReq, chatPc, attempt, served, timer, lastErr, chatRet, notChatVars >>

ChatNext ==
    \/ ChatEntry
    \/ Attempt
    \/ TimerFires
    \/ BackoffCancelled
    \/ ChatCancel

SpecChat == ChatInit /\ [][ChatNext]_vars


\* ----------------------------------------------------------- HashGuidelines
\* Longest list of guideline paths.
MaxPaths == 3

GuidelinePaths == {"a.md", "b.md", "docs/c.md"}

\* The place of a path in the order of sort.Strings.
PathRank(path) ==
    CASE path = "a.md" -> 1
      [] path = "b.md" -> 2
      [] path = "docs/c.md" -> 3

\* os.ReadFile(path): the contents of the guideline files.
FileData(path) ==
    CASE path = "a.md" -> "use gofmt"
      [] path = "b.md" -> "no globals"
      [] path = "docs/c.md" -> "use gofmt"

RECURSIVE InsertSorted(_, _)
InsertSorted(path, sorted) ==
    IF sorted = << >> THEN << path >>
    ELSE IF PathRank(path) <= PathRank(Head(sorted)) THEN << path >> \o sorted
    ELSE << Head(sorted) >> \o InsertSorted(path, Tail(sorted))

\* The paths left in the order they are given.
RECURSIVE KeepOrder(_)
KeepOrder(paths) ==
    IF paths = << >> THEN << >>
    ELSE << Head(paths) >> \o KeepOrder(Tail(paths))

\* sort.Strings on a copy of paths.
RECURSIVE SortStrings(_)
SortStrings(paths) ==
    IF paths = << >> THEN << >>
    ELSE InsertSorted(Head(paths), SortStrings(Tail(paths)))

\* The writes to the hasher for the paths, up to the first that cannot be
\* read: path, 0, data, 0.
RECURSIVE HashFiles(_, _)
HashFiles(paths, missing) ==
    IF paths = << >> THEN [ written |-> << >>, err |-> "" ]
    ELSE IF Head(paths) \in missing
    THEN [ written |-> << >>, err |-> Head(paths) ]
    ELSE LET rest == HashFiles(Tail(paths), missing)
         IN  [ written |-> << Head(paths), "0", FileData(Head(paths)), "0" >> \o rest.written,
               err |-> rest.err ]

\* HashGuidelines: (digest, err); the digest stands for the bytes written to
\* the hasher, and is not computed when nothing is given.
HashGuidelines(paths, freeText, missing) ==
    LET sorted == SortStrings(paths)
        read == HashFiles(sorted, missing)
        free == IF TrimSpace(freeText) # "" THEN << "free", "0", freeText >> ELSE << >>
    IN  IF Len(sorted) = 0 /\ TrimSpace(freeText) = ""
        THEN [ done |-> TRUE, hashed |-> FALSE, digest |-> << >>, err |-> "" ]
        ELSE IF read.err # ""
        THEN [ done |-> TRUE, hashed |-> FALSE, digest |-> << >>, err |-> read.err ]
        ELSE [ done |-> TRUE, hashed |-> TRUE, digest |-> read.written \o free, err |-> "" ]

PathLists ==
    UNION { [1..n -> GuidelinePaths] : n \in 0..MaxPaths }

\* The lists with the elements of paths in another order.
Reorderings(paths) ==
    LET n == Len(paths)
    IN  { [i \in 1..n |-> paths[f[i]]] :
            f \in {g \in [1..n -> 1..n] : \A i, j \in 1..n : g[i] = g[j] => i = j} }

\* Two calls with the same paths in two orders, the same free text and the
\* same files.
HashInit ==
    /\ RunIdle
    /\ WizardIdle
    /\ FenceIdle
    /\ RenderIdle
    /\ ParseIdle
    /\ UiIdle
    /\ DedupeIdle
    /\ DiffIdle
    /\ HunkIdle
    /\ ChatIdle
    /\ \E paths \in PathLists : \E other \in Reorderings(paths) :
          hashPaths = [k \in Calls |-> IF k = 1 THEN paths ELSE other]
    /\ hashFree \in {"", " ", " fine "}
    /\ unreadable \in {{}, {"b.md"}}
    /\ hashRet = [k \in Calls |-> NotHashed]

\* Call k of HashGuidelines.
Hash(k) ==
    /\ ~hashRet[k].done
    /\ hashRet' = [hashRet EXCEPT ![k] = HashGuidelines(hashPaths[k], hashFree, unreadable)]
    /\ UNCHANGED << hashPaths, hashFree, unreadable, notHashVars >>

HashNext ==
    \E k \in Calls : Hash(k)

SpecHash == HashInit /\ [][HashNext]_vars


\* ---------------------------------------------------------------- dashboard
\* Keys pressed in one session.
MaxKeys == 5

Tabs == << "Diff", "Comments", "Verdict", "Publish", "Config" >>

\* The keys followed; the text inputs, the tables and `p` are left out, so
\* publishRunning stays false.
Keys == {"ctrl+c", "q", "esc", "r", "right", "left", "?", "/", "enter"}

DiffOutcomes == {"files", "empty", "error"}

DiffLoadedMsg(outcome) == [ type |-> "diffLoaded", run |-> 0, outcome |-> outcome, err |-> FALSE ]
ReviewStartedMsg(r) == [ type |-> "reviewStarted", run |-> r, outcome |-> "", err |-> FALSE ]
ReviewProgressMsg(r) == [ type |-> "reviewProgress", run |-> r, outcome |-> "", err |-> FALSE ]
ReviewCompletedMsg(r, err) == [ type |-> "reviewCompleted", run |-> r, outcome |-> "", err |-> err ]

\* What a handler returns: the model, the command, and what it did on the way:
\* the review whose cancel function it called.
Out(m, cmd) ==
    [ m |-> m, cmd |-> cmd, listen |-> 0, cancels |-> 0 ]

\* maybeStartReview, on its copy of the model: the command it returns.
maybeStartReview(m, key) ==
    IF m.reviewRunning \/ m.reviewResult # 0 THEN "none"
    ELSE IF m.diff # "files" THEN "none"
    ELSE IF ~key THEN "none"
    ELSE "start"

NextTab(m) ==
    [m EXCEPT !.active = (m.active % Len(Tabs)) + 1]

PreviousTab(m) ==
    [m EXCEPT !.active = ((m.active - 2 + Len(Tabs)) % Len(Tabs)) + 1]

\* updateWizard, with the steps of the wizard taken together: enter on the
\* last step leaves the wizard with a key and generates the diff.
updateWizard(m, k) ==
    CASE k \in {"ctrl+c", "q"} -> Out(m, "quit")
      [] k = "enter" -> Out([m EXCEPT !.inWizard = FALSE], "diff")
      [] OTHER -> Out(m, "none")

updateDiffTab(m, k) ==
    CASE k \in {"ctrl+c", "q"} -> Out(m, "quit")
      [] k = "right" -> Out(NextTab(m), "none")
      [] k = "left" -> Out(PreviousTab(m), "none")
      [] OTHER -> Out(m, "none")

updateCommentsTab(m, k, key) ==
    IF m.commentsFilterActive
    THEN CASE k \in {"ctrl+c", "q"} -> Out(m, "quit")
           [] k \in {"esc", "enter"} -> Out([m EXCEPT !.commentsFilterActive = FALSE], "none")
           [] OTHER -> Out(m, "none")
    ELSE CASE k \in {"ctrl+c", "q"} -> Out(m, "quit")
           [] k = "right" -> Out(NextTab(m), "none")
           [] k = "left" -> Out(PreviousTab(m), "none")
           [] k = "/" -> Out([m EXCEPT !.commentsFilterActive = TRUE], "none")
           [] k = "r" ->
                LET started == [m EXCEPT !.reviewResult = 0, !.reviewRunning = TRUE]
                IN  Out(started, maybeStartReview(started, key))
           [] OTHER -> Out(m, "none")

updatePublishTab(m, k) ==
    IF m.publishRunning THEN Out(m, "none")
    ELSE CASE k \in {"ctrl+c", "q"} -> Out(m, "quit")
           [] k = "right" -> Out(NextTab(m), "none")
           [] k = "left" -> Out(PreviousTab(m), "none")
           [] OTHER -> Out(m, "none")

updateConfigTab(m, k, key) ==
    CASE k \in {"ctrl+c", "q"} -> Out(m, "quit")
      [] k = "right" -> Out(NextTab(m), "none")
      [] k = "left" -> Out(PreviousTab(m), "none")
      [] k = "r" ->
           LET started == [m EXCEPT !.reviewResult = 0, !.reviewRunning = TRUE]
           IN  Out(started, maybeStartReview(started, key))
      [] OTHER -> Out(m, "none")

\* The keys of Update itself, which the tabs without a handler get.
updateOtherTab(m, k) ==
    CASE k = "ctrl+c" ->
            IF (m.reviewRunning \/ m.publishRunning) /\ m.cancel # 0
            THEN [Out(m, "quit") EXCEPT !.cancels = m.cancel]
            ELSE Out(m, "quit")
      [] k = "q" -> IF ~m.commentsFilterActive THEN Out(m, "quit") ELSE Out(m, "none")
      [] k = "esc" ->
            IF (m.reviewRunning \/ m.publishRunning) /\ m.cancel # 0
            THEN [Out([m EXCEPT !.reviewRunning = FALSE, !.publishRunning = FALSE], "none")
                    EXCEPT !.cancels = m.cancel]
            ELSE Out(m, "none")
      [] k = "right" -> Out(NextTab(m), "none")
      [] k = "left" -> Out(PreviousTab(m), "none")
      [] k = "?" -> Out([m EXCEPT !.showHelp = TRUE], "none")
      [] OTHER -> Out(m, "none")

\* Update for a tea.KeyMsg.
UpdateKey(m, k, key) ==
    IF m.showHelp THEN Out([m EXCEPT !.showHelp = FALSE], "none")
    ELSE IF m.inWizard THEN updateWizard(m, k)
    ELSE CASE Tabs[m.active] = "Diff" -> updateDiffTab(m, k)
           [] Tabs[m.active] = "Comments" -> updateCommentsTab(m, k, key)
           [] Tabs[m.active] = "Publish" -> updatePublishTab(m, k)
           [] Tabs[m.active] = "Config" -> updateConfigTab(m, k, key)
           [] OTHER -> updateOtherTab(m, k)

\* Update for the messages of the diff and of the review.
UpdateMsg(m, msg, key) ==
    CASE msg.type = "diffLoaded" ->
            LET loaded == [m EXCEPT !.diff = msg.outcome]
            IN  IF msg.outcome # "error"
                THEN Out(loaded, maybeStartReview(loaded, key))
                ELSE Out(loaded, "none")
      [] msg.type = "reviewStarted" ->
            [Out([m EXCEPT !.reviewRunning = TRUE, !.reviewErr = FALSE,
                           !.reviewUpdates = msg.run, !.cancel = msg.run], "listen")
               EXCEPT !.listen = msg.run]
      [] msg.type = "reviewProgress" ->
            IF m.reviewUpdates # 0
            THEN [Out(m, "listen") EXCEPT !.listen = m.reviewUpdates]
            ELSE Out(m, "none")
      [] OTHER ->
            Out([m EXCEPT !.reviewRunning = FALSE, !.reviewUpdates = 0,
                          !.reviewErr = msg.err,
                          !.reviewResult = IF msg.err THEN @ ELSE msg.run], "none")

\* The messages a command ends with once it has run: generateDiffCmd ends
\* with a diffLoadedMsg, startReviewCmd with the reviewStartedMsg of the
\* review it started.
Produced(cmd) ==
    CASE cmd = "diff" -> {{DiffLoadedMsg(o)} : o \in DiffOutcomes}
      [] cmd = "start" -> {{ReviewStartedMsg(launched + 1)}}
      [] OTHER -> {{}}

\* The program takes the model and runs the command a handler returned.
Apply(out, seen) ==
    /\ ui' = out.m
    /\ quit' = (out.cmd = "quit")
    /\ ctxDone' = IF out.cancels # 0 THEN ctxDone \cup {out.cancels} ELSE ctxDone
    /\ launched' = IF out.cmd = "start" THEN launched + 1 ELSE launched
    /\ gpc' = IF out.cmd = "start" THEN [gpc EXCEPT ![launched + 1] = "first"] ELSE gpc
    /\ listening' = IF out.cmd = "listen" THEN listening \cup {out.listen} ELSE listening
    /\ \E new \in Produced(out.cmd) : inbox' = (inbox \ seen) \cup new

UiInit ==
    /\ RunIdle
    /\ WizardIdle
    /\ FenceIdle
    /\ RenderIdle
    /\ ParseIdle
    /\ DedupeIdle
    /\ DiffIdle
    /\ HunkIdle
    /\ ChatIdle
    /\ HashIdle
    /\ \E k \in BOOLEAN : UiAt(k)

\* The user presses a key.
Press(k) ==
    /\ ~quit
    /\ pressed < MaxKeys
    /\ pressed' = pressed + 1
    /\ lastKey' = k
    /\ keyOK' = (keyOK \/ (ui.inWizard /\ ~ui.showHelp /\ k = "enter"))
    /\ Apply(UpdateKey(ui, k, keyOK), {})
    /\ UNCHANGED << runErr, notUiVars >>

\* The program hands Update the message of a finished command.
Deliver(msg) ==
    /\ ~quit
    /\ msg \in inbox
    /\ Apply(UpdateMsg(ui, msg, keyOK), {msg})
    /\ UNCHANGED << keyOK, pressed, lastKey, runErr, notUiVars >>

\* `updates <- ...` of the goroutine of review r meeting the receive of a
\* listenReviewCmd.
Handed(r, msg) ==
    /\ r \in listening
    /\ listening' = listening \ {r}
    /\ inbox' = inbox \cup {msg}

\* updates <- reviewProgressMsg{file: "starting"}; then review.Run starts.
GoStarting(r) ==
    /\ ~quit
    /\ gpc[r] = "first"
    /\ Handed(r, ReviewProgressMsg(r))
    /\ gpc' = [gpc EXCEPT ![r] = "run"]
    /\ UNCHANGED << ui, keyOK, pressed, lastKey, quit, launched, runErr, ctxDone, notUiVars >>

\* The progress callback of Run, for the files taken together: select on
\* ctx.Done() and the send.
GoProgress(r) ==
    /\ ~quit
    /\ gpc[r] = "run"
    /\ \/ Handed(r, ReviewProgressMsg(r))
       \/ r \in ctxDone /\ UNCHANGED << listening, inbox >>
    /\ gpc' = [gpc EXCEPT ![r] = "ran"]
    /\ UNCHANGED << ui, keyOK, pressed, lastKey, quit, launched, runErr, ctxDone, notUiVars >>

\* review.Run returns; select { case <-ctx.Done(): return; default: send }.
GoRunReturns(r) ==
    /\ ~quit
    /\ gpc[r] \in {"run", "ran"}
    /\ \E err \in BOOLEAN :
          /\ r \in ctxDone => err
          /\ runErr' = [runErr EXCEPT ![r] = err]
    /\ gpc' = [gpc EXCEPT ![r] = IF r \in ctxDone THEN "done" ELSE "sending"]
    /\ UNCHANGED << ui, keyOK, pressed, lastKey, quit, inbox, launched, listening, ctxDone, notUiVars >>

\* updates <- reviewCompletedMsg{...}; then the deferred close(updates).
GoCompleted(r) ==
    /\ ~quit
    /\ gpc[r] = "sending"
    /\ Handed(r, ReviewCompletedMsg(r, runErr[r]))
    /\ gpc' = [gpc EXCEPT ![r] = "done"]
    /\ UNCHANGED << ui, keyOK, pressed, lastKey, quit, launched, runErr, ctxDone, notUiVars >>

\* A listenReviewCmd on the closed channel returns nil: no message.
ListenClosed(r) ==
    /\ ~quit
    /\ gpc[r] = "done"
    /\ r \in listening
    /\ listening' = listening \ {r}
    /\ UNCHANGED << ui, keyOK, pressed, lastKey, quit, inbox, launched, gpc, runErr, ctxDone, notUiVars >>

UiNext ==
    \/ \E k \in Keys : Press(k)
    \/ \E msg \in inbox : Deliver(msg)
    \/ \E r \in Reviews : GoStarting(r)
    \/ \E r \in Reviews : GoProgress(r)
    \/ \E r \in Reviews : GoRunReturns(r)
    \/ \E r \in Reviews : GoCompleted(r)
    \/ \E r \in Reviews : ListenClosed(r)

SpecUi == UiInit /\ [][UiNext]_vars


\* -------------------------------------------------------- parseFileComments
\* Longest "comments" array of a response.
MaxEntries == 3

EntryZeroLine == Entry("a.go", 0, 2, "issue", "Zero", "starts at line 0", "")
EntryNoPath == Entry(" ", 1, 1, "issue", "Nowhere", "no file", "")

Entries ==
    { EntryLeak, EntryLeakAgain, EntryNit, EntryBadRange, EntryNoTitle,
      EntryLeakIssue, EntryZeroLine, EntryNoPath }

ParseResponses ==
    { NotJSONFile } \cup { FileContent(e) : e \in UNION { [1..n -> Entries] : n \in 0..MaxEntries } }

ParseInit ==
    /\ RunIdle
    /\ WizardIdle
    /\ FenceIdle
    /\ RenderIdle
    /\ DedupeIdle
    /\ DiffIdle
    /\ HunkIdle
    /\ ChatIdle
    /\ HashIdle
    /\ UiIdle
    /\ answer \in ParseResponses
    /\ parsedOut = NotParsedYet

\* The worker's call of parseFileComments(content).
ParseResponse ==
    /\ ~parsedOut.done
    /\ LET got == parseFileComments(answer)
       IN  parsedOut' = [ done |-> TRUE, comments |-> got.comments, err |-> got.err ]
    /\ UNCHANGED << answer, notParseVars >>

ParseNext ==
    ParseResponse

SpecParse == ParseInit /\ [][ParseNext]_vars


\* ---------------------------------------------------- RenderUnifiedDiffFile
\* Most lines of the first hunk of a file handed to RenderUnifiedDiffFile.
MaxRenderLines == 2

\* The texts of the lines: a plain one, the empty one, one that begins with
\* `++ ` and one that ends with a carriage return.
TextPlain == << "a" >>
TextEmpty == << >>
TextPlusPlus == << "+", "+", " ", "b", "/", "y" >>
TextReturn == << "a", "\r" >>

RenderTexts ==
    { TextPlain, TextEmpty, TextPlusPlus, TextReturn }

RenderKinds ==
    { DiffLineContext, DiffLineAdd, DiffLineDel }

HunkLine(kind, text) ==
    [ Kind |-> kind, OldLine |-> 0, NewLine |-> 0, Text |-> text ]

RenderLineValues ==
    { HunkLine(kind, text) : kind \in RenderKinds, text \in RenderTexts }

\* A hunk with the header `@@ -1,2 +3 @@` and the given lines.
HunkOf(lines) ==
    [ Header |-> LineHunk, OldStart |-> 1, OldLines |-> 2, NewStart |-> 3, NewLines |-> 1,
      Lines |-> lines ]

FirstHunks ==
    { HunkOf(lines) : lines \in UNION { [1..n -> RenderLineValues] : n \in 0..MaxRenderLines } }

LaterHunks ==
    { HunkOf(<< >>), HunkOf(<< HunkLine(DiffLineAdd, TextPlain) >>),
      HunkOf(<< HunkLine(DiffLineContext, TextEmpty) >>) }

RenderPaths ==
    { << "x" >>, << "b", "/", "x" >> }

\* Files with a path and one or two hunks whose headers parseHunkHeader accepts.
RenderFiles ==
    { [ Path |-> path, Hunks |-> << first >> ] : path \in RenderPaths, first \in FirstHunks }
        \cup { [ Path |-> path, Hunks |-> << first, later >> ] :
                   path \in RenderPaths, first \in FirstHunks, later \in LaterHunks }

\* The character RenderUnifiedDiffFile writes before the text of a line.
KindPrefix(kind) ==
    IF kind = DiffLineAdd THEN << "+" >>
    ELSE IF kind = DiffLineDel THEN << "-" >>
    ELSE << " " >>

RECURSIVE RenderHunks(_)
RenderHunks(hunks) ==
    IF hunks = << >> THEN << >>
    ELSE LET hunk == Head(hunks)
         IN  << hunk.Header >>
                 \o [ i \in 1..Len(hunk.Lines) |->
                        KindPrefix(hunk.Lines[i].Kind) \o hunk.Lines[i].Text ]
                 \o RenderHunks(Tail(hunks))

\* strings.TrimRight(text, "\n") on the lines of a text: the empty lines at the
\* end are gone.
RECURSIVE TrimRightNewlines(_)
TrimRightNewlines(lines) ==
    IF lines # << >> /\ lines[Len(lines)] = << >>
    THEN TrimRightNewlines(SubSeq(lines, 1, Len(lines) - 1))
    ELSE lines

\* The lines of the text RenderUnifiedDiffFile returns.
RenderUnifiedDiffFile(file) ==
    TrimRightNewlines(
        << DiffGitPrefix \o << "a", "/" >> \o file.Path \o << " ", "b", "/" >> \o file.Path,
           << "-", "-", "-", " ", "a", "/" >> \o file.Path,
           << "+", "+", "+", " ", "b", "/" >> \o file.Path >>
            \o RenderHunks(file.Hunks))

RenderInit ==
    /\ RunIdle
    /\ WizardIdle
    /\ FenceIdle
    /\ ParseIdle
    /\ UiIdle
    /\ HashIdle
    /\ ChatIdle
    /\ DedupeIdle
    /\ DiffIdle
    /\ HunkIdle
    /\ rfile \in RenderFiles

\* RenderUnifiedDiffFile(rfile) returns; its output is the text to parse.
RenderFile ==
    /\ diff = << >>
    /\ diff' = RenderUnifiedDiffFile(rfile)
    /\ UNCHANGED << ppc, scanned, diffFiles, currentFile, currentHunk, oldLine, newLine,
                    parseRet, notDiffVars >>

\* ParseUnifiedDiff on the rendered text.
ParseRendered ==
    /\ diff # << >>
    /\ DiffNext

RenderNext ==
    \/ RenderFile
    \/ ParseRendered

SpecRender == RenderInit /\ [][RenderNext]_vars


\* ------------------------------------------------------------ stripCodeFence
\* The grave accent, written # in the texts of the model.
Grave == "#"

Fence == << Grave, Grave, Grave >>

\* What a response begins with: nothing, or a line break after a space.
Befores ==
    { << >>, << " ", "\n" >> }

\* An opening fence with the tag json and one without a tag, each with the
\* line break after it; a fence and a tag with the content on the same line;
\* and no opening fence.
OpenTagged == Fence \o << "j", "s", "o", "n", "\n" >>
OpenBare == Fence \o << "\n" >>
OpenSameLine == Fence \o << "j", "s", "o", "n", " " >>
OpenNone == << >>

Opens ==
    { OpenTagged, OpenBare, OpenSameLine, OpenNone }

\* JSON on one line, JSON on three lines, and JSON with a fence in a string.
InnerOneLine == << "{", "}" >>
InnerLines == << "{", "\n", "1", "\n", "}" >>
InnerWithFence == << "{", Grave, Grave, Grave, "}" >>

Inners ==
    { InnerOneLine, InnerLines, InnerWithFence }

\* A closing fence on a line of its own, with a line break after it, on the
\* line of the content, and no closing fence.
CloseOwnLine == << "\n" >> \o Fence
CloseThenBreak == << "\n" >> \o Fence \o << " ", "\n" >>
CloseSameLine == Fence
CloseNone == << >>

Closes ==
    { CloseOwnLine, CloseThenBreak, CloseSameLine, CloseNone }

Replies ==
    { [ before |-> b, open |-> o, inner |-> i, close |-> c ] :
          b \in Befores, o \in Opens, i \in Inners, c \in Closes }

\* The content as one text.
TextOf(r) ==
    r.before \o r.open \o r.inner \o r.close

\* strings.Index(s, sub): the first place where sub begins, from 0; -1 without one.
Index(s, sub) ==
    LET at == {i \in 1..Len(s) : HasPrefix(SubSeq(s, i, Len(s)), sub)}
    IN  IF at = {} THEN -1 ELSE (CHOOSE i \in at : \A k \in at : i <= k) - 1

\* strings.LastIndex(s, sub): the last place where sub begins.
LastIndex(s, sub) ==
    LET at == {i \in 1..Len(s) : HasPrefix(SubSeq(s, i, Len(s)), sub)}
    IN  IF at = {} THEN -1 ELSE (CHOOSE i \in at : \A k \in at : k <= i) - 1

\* trimmed[idx+1:] when the text has a line break at idx.
AfterFirstLine(trimmed) ==
    IF Index(trimmed, << "\n" >>) # -1
    THEN SubSeq(trimmed, Index(trimmed, << "\n" >>) + 2, Len(trimmed))
    ELSE trimmed

\* trimmed[:end] when the text has a fence at end.
BeforeLastFence(trimmed) ==
    IF LastIndex(trimmed, Fence) # -1
    THEN SubSeq(trimmed, 1, LastIndex(trimmed, Fence))
    ELSE trimmed

stripCodeFence(text) ==
    LET trimmed == TrimSpaceText(text)
    IN  IF HasPrefix(trimmed, Fence)
        THEN TrimSpaceText(BeforeLastFence(AfterFirstLine(
                 TrimSpaceText(TrimPrefix(trimmed, Fence)))))
        ELSE TrimSpaceText(trimmed)

FenceInit ==
    /\ RunIdle
    /\ WizardIdle
    /\ RenderIdle
    /\ ParseIdle
    /\ UiIdle
    /\ HashIdle
    /\ ChatIdle
    /\ DedupeIdle
    /\ DiffIdle
    /\ HunkIdle
    /\ reply \in Replies
    /\ stripRet = NotStripped

\* stripCodeFence(content) returns.
StripFence ==
    /\ ~stripRet.done
    /\ stripRet' = [ done |-> TRUE, text |-> stripCodeFence(TextOf(reply)) ]
    /\ UNCHANGED << reply, notFenceVars >>

FenceNext ==
    StripFence

SpecFence == FenceInit /\ [][FenceNext]_vars


\* ------------------------------------------------------- Model.updateWizard
\* The branches of the repository, the models offered and the guideline files
\* found.
Branches == << "main", "dev" >>
ModelOptions == << "m1", "m2", "Custom..." >>
GuidelineOptions == << "a.md", "b.md" >>

WizardKeys ==
    { "ctrl+c", "q", "r", "up", "down", "b", "enter", "esc", " ", "a", "x" }

\* A text input after Update(msg): a key that is a character is typed in, and
\* the value is then some text that is neither blank nor part of a branch name.
Typed(value, k) ==
    IF k \in {"r", "b", "a", "x"} THEN "typed" ELSE value

clamp(value, min, max) ==
    IF max < min THEN min
    ELSE IF value < min THEN min
    ELSE IF value > max THEN max
    ELSE value

filteredBranches(m) ==
    IF m.branchFilterInput = "" THEN Branches ELSE << >>

\* The index, from 0, of the first place of a value in a sequence; -1 without one.
IndexIn(seq, value) ==
    LET at == {i \in 1..Len(seq) : seq[i] = value}
    IN  IF at = {} THEN -1 ELSE (CHOOSE i \in at : \A j \in at : i <= j) - 1

initialBranchIndex(m, name) ==
    IF name = "" \/ IndexIn(filteredBranches(m), name) = -1 THEN 0
    ELSE IndexIn(filteredBranches(m), name)

initialModelIndex(name) ==
    IF name = "" THEN 0
    ELSE IF IndexIn(ModelOptions, name) # -1 THEN IndexIn(ModelOptions, name)
    ELSE Len(ModelOptions) - 1

\* case wizardRepo
updateWizardRepo(m, k) ==
    IF k = "enter"
    THEN [m EXCEPT !.wizardStep = "wizardBaseBranch",
                   !.cursor = initialBranchIndex(m, ""),
                   !.branchFilterInput = ""]
    ELSE m

\* case wizardBaseBranch
updateWizardBaseBranch(m, k) ==
    CASE k = "up" -> [m EXCEPT !.cursor = clamp(m.cursor - 1, 0, Len(filteredBranches(m)) - 1)]
      [] k = "down" -> [m EXCEPT !.cursor = clamp(m.cursor + 1, 0, Len(filteredBranches(m)) - 1)]
      [] k = "enter" ->
            IF Len(filteredBranches(m)) = 0 THEN m
            ELSE [m EXCEPT !.baseBranch = filteredBranches(m)[m.cursor + 1],
                           !.wizardStep = "wizardBranch",
                           !.cursor = initialBranchIndex(m, ""),
                           !.branchFilterInput = ""]
      [] OTHER -> [m EXCEPT !.branchFilterInput = Typed(@, k), !.cursor = 0]

\* case wizardBranch
updateWizardBranch(m, k) ==
    CASE k = "up" -> [m EXCEPT !.cursor = clamp(m.cursor - 1, 0, Len(filteredBranches(m)) - 1)]
      [] k = "down" -> [m EXCEPT !.cursor = clamp(m.cursor + 1, 0, Len(filteredBranches(m)) - 1)]
      [] k = "b" -> [m EXCEPT !.wizardStep = "wizardBaseBranch",
                              !.cursor = initialBranchIndex(m, m.baseBranch),
                              !.branchFilterInput = ""]
      [] k = "enter" ->
            IF Len(filteredBranches(m)) = 0 THEN m
            ELSE [m EXCEPT !.branch = filteredBranches(m)[m.cursor + 1],
                           !.wizardStep = "wizardModel",
                           !.modelCursor = initialModelIndex(m.LastModel)]
      [] OTHER -> [m EXCEPT !.branchFilterInput = Typed(@, k), !.cursor = 0]

\* case wizardModel
updateWizardModel(m, k) ==
    CASE k = "up" -> [m EXCEPT !.modelCursor = clamp(m.modelCursor - 1, 0, Len(ModelOptions) - 1)]
      [] k = "down" -> [m EXCEPT !.modelCursor = clamp(m.modelCursor + 1, 0, Len(ModelOptions) - 1)]
      [] k = "b" -> [m EXCEPT !.wizardStep = "wizardModel",
                              !.modelCursor = initialModelIndex(m.LastModel),
                              !.branchFilterInput = ""]
      [] k = "enter" ->
            IF ModelOptions[m.modelCursor + 1] = "Custom..."
            THEN [m EXCEPT !.wizardStep = "wizardModelInput", !.modelInput = m.LastModel]
            ELSE [m EXCEPT !.LastModel = ModelOptions[m.modelCursor + 1],
                           !.wizardStep = "wizardGuidelines",
                           !.guidelineCursor = 0]
      [] OTHER -> m

\* case wizardModelInput
updateWizardModelInput(m, k) ==
    CASE k \in {"esc", "b"} -> [m EXCEPT !.wizardStep = "wizardModel"]
      [] k = "enter" ->
            IF m.modelInput = "" THEN m
            ELSE [m EXCEPT !.LastModel = m.modelInput,
                           !.wizardStep = "wizardGuidelines",
                           !.guidelineCursor = 0]
      [] OTHER -> [m EXCEPT !.modelInput = Typed(@, k)]

\* case wizardGuidelines
updateWizardGuidelines(m, k) ==
    CASE k = "up" ->
            [m EXCEPT !.guidelineCursor = clamp(m.guidelineCursor - 1, 0, Len(GuidelineOptions) - 1)]
      [] k = "down" ->
            [m EXCEPT !.guidelineCursor = clamp(m.guidelineCursor + 1, 0, Len(GuidelineOptions) - 1)]
      [] k = "a" -> [m EXCEPT !.wizardStep = "wizardGuidelinePath", !.pathInput = ""]
      [] k = "b" -> [m EXCEPT !.wizardStep = "wizardBranch",
                              !.cursor = initialBranchIndex(m, m.branch)]
      [] k = "enter" -> [m EXCEPT !.wizardStep = "wizardFreeGuideline"]
      [] OTHER -> m

\* case wizardGuidelinePath: a path that was typed resolves to a file, an
\* empty one does not.
updateWizardGuidelinePath(m, k) ==
    CASE k = "esc" -> [m EXCEPT !.wizardStep = "wizardGuidelines"]
      [] k = "enter" ->
            IF m.pathInput = "" THEN m
            ELSE [m EXCEPT !.wizardStep = "wizardGuidelines"]
      [] OTHER -> [m EXCEPT !.pathInput = Typed(@, k)]

\* case wizardFreeGuideline
updateWizardFreeGuideline(m, k) ==
    CASE k \in {"esc", "b"} -> [m EXCEPT !.wizardStep = "wizardGuidelines"]
      [] k = "enter" ->
            IF ~m.environmentKey /\ m.openRouterKey = ""
            THEN [m EXCEPT !.wizardStep = "wizardOpenRouterKey", !.keyInput = ""]
            ELSE [m EXCEPT !.inWizard = FALSE]
      [] OTHER -> m

\* case wizardOpenRouterKey
updateWizardOpenRouterKey(m, k) ==
    CASE k = "esc" -> [m EXCEPT !.keyInput = "", !.wizardStep = "wizardFreeGuideline"]
      [] k = "b" -> [m EXCEPT !.wizardStep = "wizardFreeGuideline"]
      [] k = "enter" ->
            IF m.keyInput = "" THEN [m EXCEPT !.openRouterKey = ""]
            ELSE [m EXCEPT !.openRouterKey = m.keyInput, !.inWizard = FALSE]
      [] OTHER -> [m EXCEPT !.keyInput = Typed(@, k)]

\* updateWizard, step by step.
updateWizardSteps(m, k) ==
    IF k \in {"ctrl+c", "q"} THEN [m EXCEPT !.quit = TRUE]
    ELSE IF m.err THEN (IF k = "r" THEN [m EXCEPT !.err = FALSE] ELSE m)
    ELSE CASE m.wizardStep = "wizardRepo" -> updateWizardRepo(m, k)
           [] m.wizardStep = "wizardBaseBranch" -> updateWizardBaseBranch(m, k)
           [] m.wizardStep = "wizardBranch" -> updateWizardBranch(m, k)
           [] m.wizardStep = "wizardModel" -> updateWizardModel(m, k)
           [] m.wizardStep = "wizardModelInput" -> updateWizardModelInput(m, k)
           [] m.wizardStep = "wizardGuidelines" -> updateWizardGuidelines(m, k)
           [] m.wizardStep = "wizardGuidelinePath" -> updateWizardGuidelinePath(m, k)
           [] m.wizardStep = "wizardFreeGuideline" -> updateWizardFreeGuideline(m, k)
           [] OTHER -> updateWizardOpenRouterKey(m, k)

\* cfg.LastModel as the configuration gives it: none, one of the options, one
\* that is not offered.
LastModels ==
    { "", "m2", "gone" }

WizardInit ==
    /\ RunIdle
    /\ FenceIdle
    /\ RenderIdle
    /\ ParseIdle
    /\ UiIdle
    /\ HashIdle
    /\ ChatIdle
    /\ DedupeIdle
    /\ DiffIdle
    /\ HunkIdle
    /\ \E failed \in BOOLEAN, environmentKey \in BOOLEAN, last \in LastModels :
          wiz = WizardModelOf(failed, environmentKey, last)
    /\ wizKey = ""
    /\ wizFrom = ""

\* The user presses a key while the wizard is shown.
WizardKey(k) ==
    /\ wiz.inWizard
    /\ ~wiz.quit
    /\ wizKey' = k
    /\ wizFrom' = wiz.wizardStep
    /\ wiz' = updateWizardSteps(wiz, k)
    /\ UNCHANGED notWizardVars

WizardNext ==
    \E k \in WizardKeys : WizardKey(k)

SpecWizard == WizardInit /\ [][WizardNext]_vars

\* ------------------------------------------------------------ properties
Range(seq) ==
    {seq[i] : i \in 1..Len(seq)}

\* Run returned before it started any goroutine.
ReturnedEarly ==
    pc = "returned" /\ ret.err \in {"no diff files to review", "guidelines"}

\* Run has left the per-file loop.
LoopLeft ==
    pc \in {"compose", "verdict"} \/ (pc = "returned" /\ ~ReturnedEarly)

\* C1: when Run has processed its N >= 1 files and some of them failed, it
\* still returns a Result and no error, and the Result's comments are comments
\* of the files that succeeded. (The Result of types.go has no field for file
\* errors, so that part of the claim has nothing to be stated about.)
C1_FailedFilesStillYieldResult ==
    (pc = "returned" /\ Len(files) >= 1 /\ completed = Len(files))
        => /\ ret.kind = "result"
           /\ ret.err = ""
           /\ \A c \in Range(ret.result.Comments) :
                 \E k \in 1..Len(collected) : WithID(collected[k]) = c

\* C2: every file is sent on jobs at most once and resolved at most once, a
\* file is resolved only after it was dispatched, completed counts the resolved
\* files, Run waits in the loop only while completed < total, and once it has
\* left the loop every file was dispatched and resolved exactly once, whether
\* or not some file failed.
C2_EachFileResolvedOnce ==
    /\ \A i \in 1..Len(files) : dispatched[i] <= 1 /\ resolved[i] <= dispatched[i]
    /\ completed = Cardinality({i \in 1..Len(files) : resolved[i] = 1})
    /\ pc = "recv" => completed < Len(files)
    /\ LoopLeft => /\ completed = Len(files)
                   /\ \A i \in 1..Len(files) : dispatched[i] = 1 /\ resolved[i] = 1

\* C2 witness: the loop was left with all of three files resolved, one of
\* them failed and another one delivered comments.
C2_Witness ==
    /\ pc = "compose"
    /\ Len(files) = 3
    /\ completed = 3
    /\ firstErr.err # ""
    /\ collected # << >>

\* C3: a run whose context was cancelled while it was dispatching files or
\* awaiting results returns no Result: it returns an error.
C3_CancelledRunYieldsNoResult ==
    (pc = "returned" /\ cancelAt = "files") => ret.kind = "error"

\* C4: once the context is cancelled, no further file is sent to a worker and
\* no further per-file backend call is made.
C4_NoDispatchAfterCancel ==
    [][cancelled => (dispatched' = dispatched /\ calls' = calls)]_vars

\* Every goroutine Run started has ended.
GoroutinesGone ==
    /\ \A w \in Workers : wpc[w] \in {"none", "done"}
    /\ dpc \in {"none", "done"}

\* C5 as claimed: at the moment Run has returned, no worker and no dispatcher
\* is alive any more.
C5_NoGoroutineAliveAtReturn ==
    pc = "returned" => GoroutinesGone

\* C5 amended: once Run has returned, no worker is inside a backend call or
\* at a send on results, the dispatcher has no file left to send, and a worker
\* that is still in its range loop is not stuck there: jobs is closed, or the
\* dispatcher is at close(jobs). The goroutines left only have to end.
C5_GoroutinesOnlyWindDown ==
    pc = "returned" =>
        /\ \A w \in Workers : wpc[w] \in {"none", "ranging", "done"}
        /\ dpc \in {"none", "closing", "done"}
        /\ (dpc # "none") => jobsNext = Len(files) + 1
        /\ jobsClosed <=> dpc = "done"
        /\ GoroutinesGone \/ ENABLED (CloseJobs \/ \E w \in Workers : WorkerExit(w))

\* C5 witness: Run has returned an error after a cancellation while a worker
\* is still in its range loop and jobs is not closed yet.
C5_Witness ==
    /\ pc = "returned"
    /\ cancelled
    /\ ret.kind = "error"
    /\ firstErr.err # ""
    /\ dpc = "closing"
    /\ \E w \in Workers : wpc[w] = "ranging"

\* A step of Run, of a worker or of the dispatcher that needs neither the
\* consumer of the progress updates nor a cancellation.
ProcessingStep ==
    \/ RunEntry
    \/ \E w \in Workers : TakeJob(w)
    \/ CloseJobs
    \/ \E w \in Workers : WorkerExit(w)
    \/ \E w \in Workers : ChatReturn(w)
    \/ \E w \in Workers : Receive(w)
    \/ ProgressAbandoned
    \/ Compose
    \/ VerdictReturn

\* C6: file processing never waits for the consumer of the progress updates:
\* while Run is in the per-file loop, some step of Run, of a worker or of the
\* dispatcher is possible without any update being received.
C6_ProcessingNeverWaitsForConsumer ==
    pc \in {"recv", "progress"} => ENABLED ProcessingStep

\* C7: a file without hunks never gets a backend call and its result carries
\* no comment and no error; a file with hunks gets its one ChatCompletion
\* invocation when a worker takes it, never a second one; once the loop is
\* left every file with hunks has had exactly one call.
C7_OneCallPerFileWithHunks ==
    /\ \A i \in 1..Len(files) :
          /\ calls[i] <= 1
          /\ calls[i] = IF files[i].Hunks = 0 THEN 0 ELSE dispatched[i]
    /\ \A w \in Workers :
          (wpc[w] = "sending" /\ files[wresult[w].file].Hunks = 0)
              => (wresult[w].comments = << >> /\ wresult[w].err = "")
    /\ (pc = "progress" /\ files[current.file].Hunks = 0)
          => (current.comments = << >> /\ current.err = "")
    /\ LoopLeft =>
          \A i \in 1..Len(files) : calls[i] = IF files[i].Hunks = 0 THEN 0 ELSE 1

\* C7 witness: the loop was left, after a cancellation, over files of which
\* one has no hunks and one has.
C7_Witness ==
    /\ pc = "compose"
    /\ cancelled
    /\ \E i, j \in 1..Len(files) : files[i].Hunks = 0 /\ files[j].Hunks # 0

\* The per-file backend calls in flight.
InFlight ==
    {w \in Workers : wpc[w] = "calling"}

\* The workers that hold a file: in its backend call or handing its result over.
Busy ==
    {w \in Workers : wpc[w] \in {"calling", "sending"}}

\* C8, the step that starts the pool: Run starts 3 workers when the configured
\* MaxConcurrency is <= 0 and that many otherwise.
C8_StartsConfiguredPool ==
    (pc = "entry" /\ pc' = "recv") =>
        /\ opts'.MaxConcurrency = IF opts.MaxConcurrency <= 0 THEN 3 ELSE opts.MaxConcurrency
        /\ Cardinality({w \in Workers : wpc'[w] # "none"}) = opts'.MaxConcurrency

\* C8, the state of the pool: at most MaxConcurrency backend calls are in
\* flight, and a worker holds one file at a time: the files dispatched and not
\* yet resolved are exactly the files the busy workers hold, one each.
C8_PoolIsBounded ==
    IF dpc = "none"
    THEN \A w \in Workers : wpc[w] = "none"
    ELSE
        /\ Cardinality(InFlight) <= opts.MaxConcurrency
        /\ Cardinality({w \in Workers : wpc[w] # "none"}) <= opts.MaxConcurrency
        /\ \A v, w \in Busy : v # w => wresult[v].file # wresult[w].file
        /\ {wresult[w].file : w \in Busy}
              = {i \in 1..Len(files) : dispatched[i] = 1 /\ resolved[i] = 0}

\* C8: at every moment of a run the per-file backend calls in flight are at
\* most maxConcurrency (3 when the configured value is zero or negative), and
\* each worker finishes its file before it takes the next one.
C8_BoundedConcurrency ==
    [] C8_PoolIsBounded /\ [][C8_StartsConfiguredPool]_vars

\* C8 witness: two workers configured, both inside a backend call, while the
\* dispatcher still holds a file that no worker can take.
C8_Witness ==
    /\ opts.MaxConcurrency = 2
    /\ Cardinality(InFlight) = 2
    /\ dpc = "sending"

\* C9: when the summary call succeeded and decoded, the final decision is GO
\* or NO_GO, and it is NO_GO exactly when the Result's comments hold a BLOCKER
\* or the model's decision is NO_GO.
C9_FinalDecision ==
    (pc = "returned" /\ ret.kind = "result" /\ generated.err = "") =>
        LET blocker == \E c \in Range(ret.result.Comments) : c.Severity = "BLOCKER"
            final == ret.result.Verdict.Decision
        IN  /\ final \in {"GO", "NO_GO"}
            /\ final = "NO_GO" <=> (blocker \/ generated.verdict.Decision = "NO_GO")

\* C9 witness: the comments hold a BLOCKER, the model answered GO, the final
\* decision is NO_GO.
C9_Witness ==
    /\ pc = "returned"
    /\ ret.kind = "result"
    /\ generated.err = ""
    /\ generated.verdict.Decision = "GO"
    /\ \E c \in Range(ret.result.Comments) : c.Severity = "BLOCKER"
    /\ ret.result.Verdict.Decision = "NO_GO"

\* C10: when the summary call failed or its response did not decode, Run
\* returns a Result and no error, and the verdict is the rule decision (NO_GO
\* exactly when a comment is a BLOCKER), the fixed summary and rationale, and
\* the per-severity counts of the Result's comments.
C10_FallbackVerdict ==
    (pc = "returned" /\ verdictCalls = 1 /\ generated.err # "") =>
        LET comments == Range(ret.result.Comments)
            count(sev) == Cardinality({c \in comments : c.Severity = sev})
        IN  /\ ret.kind = "result"
            /\ ret.err = ""
            /\ ret.result.Verdict =
                  [ Decision  |-> IF count("BLOCKER") > 0 THEN "NO_GO" ELSE "GO",
                    Summary   |-> "Verdict unavailable due to parsing error.",
                    Rationale |-> << "Defaulted to rule-based decision." >>,
                    Stats     |-> [ Nit |-> count("NIT"),
                                    Suggestion |-> count("SUGGESTION"),
                                    Issue |-> count("ISSUE"),
                                    Blocker |-> count("BLOCKER") ] ]

\* C10 witness: the summary response did not decode and the comments hold a
\* BLOCKER and a NIT.
C10_Witness ==
    /\ pc = "returned"
    /\ generated.err = "decode"
    /\ \E c \in Range(ret.result.Comments) : c.Severity = "BLOCKER"
    /\ \E c \in Range(ret.result.Comments) : c.Severity = "NIT"

\* C11: every entry that parseFileComments leaves out adds one to the dropped
\* count of the Result that Run returns.
C11_DroppedEntriesAreCounted ==
    (pc = "returned" /\ ret.kind = "result")
        => ret.result.Dropped = droppedEntries

\* C12: with no files Run returns the no-files error and no Result, and never
\* starts a worker or the dispatcher, never invokes the backend and never calls
\* the progress callback.
C12_NoFilesFailsBeforeAnything ==
    Len(files) = 0
        => /\ pc \in {"entry", "returned"}
           /\ \A w \in Workers : wpc[w] = "none"
           /\ dpc = "none"
           /\ verdictCalls = 0
           /\ completed = 0
           /\ update = NoProgress
           /\ pc = "returned"
                 => ret = [ kind |-> "error", err |-> "no diff files to review",
                            result |-> EmptyResult ]

C12_Witness ==
    Len(files) = 0 /\ pc = "returned" /\ guidelinesOK

RECURSIVE SumTo(_, _)
SumTo(count, n) ==
    IF n = 0 THEN 0 ELSE count[n] + SumTo(count, n - 1)

\* Progress notifications fired so far.
NoticesFired ==
    SumTo(notices, Len(files))

\* C13: a notification fires for a file exactly when a result of that file is
\* received, failed or not, so that once the loop is left every file was named
\* by exactly one notification; the k-th notification carries completed = k
\* and total = number of files, and names the file whose result was just
\* received.
C13_OneNotificationPerFile ==
    /\ \A i \in 1..Len(files) : notices[i] = resolved[i]
    /\ LoopLeft => \A i \in 1..Len(files) : notices[i] = 1
    /\ pc # "progress" => update = NoProgress
    /\ pc = "progress"
          => /\ update.Total = Len(files)
             /\ update.Completed = NoticesFired
             /\ update.Completed \in 1..Len(files)
             /\ update.CurrentFile = files[current.file].Path
             /\ resolved[current.file] = 1

C13_Witness ==
    /\ pc = "progress"
    /\ Len(files) >= 2
    /\ update.Completed = 2
    /\ current.err # ""
    /\ firstErr.err = ""

\* C14: a notification reports how many results have failed so far, and the
\* error of the file it names: empty when that file succeeded.
C14_NotificationReportsFailures ==
    pc = "progress"
        => /\ update.Failed = failedSoFar
           /\ update.LastError = current.err

\* C15: generateVerdict invokes the backend at most once in a run, not before
\* every file's result has been received, and never while a worker's
\* ChatCompletion is in flight.
C15_VerdictCallOnceAfterAllFiles ==
    /\ verdictCalls <= 1
    /\ verdictCalls = 1
          => /\ completed = Len(files)
             /\ \A i \in 1..Len(files) : resolved[i] = 1
    /\ \A w \in Workers : wpc[w] = "calling" => (verdictCalls = 0 /\ pc # "verdict")

C15_Witness ==
    /\ pc = "verdict"
    /\ verdictCalls = 1
    /\ Len(files) >= 2
    /\ \E w \in Workers : wpc[w] = "ranging"
    /\ \E i \in 1..Len(files) : calls[i] = 1

\* C16: two runs that are given the same per-file comment lists return the
\* same deduplicated list, same comments in the same order, whatever the order
\* in which the results arrived in each.
C16_SameListInEveryRun ==
    (dedupedOf[1].done /\ dedupedOf[2].done)
        => dedupedOf[1].comments = dedupedOf[2].comments

\* The identity of a comment.
Identity(comment) ==
    << TrimSpace(comment.FilePath), comment.StartLine, comment.EndLine,
       comment.Severity, TrimSpace(comment.Title), TrimSpace(comment.Body) >>

\* The first comment of a list that has the given identity.
FirstWith(comments, id) ==
    comments[CHOOSE k \in 1..Len(comments) :
                /\ Identity(comments[k]) = id
                /\ \A m \in 1..(k - 1) : Identity(comments[m]) # id]

\* C17: what dedupeComments returns has exactly one comment for each identity
\* of its input, and that comment is the first of the input with that
\* identity, evidence included, whatever later comments of the same identity say.
C17_OneCommentPerIdentity ==
    \A r \in Runs :
        dedupedOf[r].done
            => LET input == collectedOf[r]
                   out == dedupedOf[r].comments
               IN  /\ \A k \in 1..Len(input) :
                         Cardinality({m \in 1..Len(out) :
                                        Identity(out[m]) = Identity(input[k])}) = 1
                   /\ \A m \in 1..Len(out) :
                         /\ \E k \in 1..Len(input) : Identity(input[k]) = Identity(out[m])
                         /\ [out[m] EXCEPT !.ID = << >>] = FirstWith(input, Identity(out[m]))

C17_Witness ==
    \E r \in Runs :
        /\ dedupedOf[r].done
        /\ Len(collectedOf[r]) >= 3
        /\ Len(dedupedOf[r].comments) = 2
        /\ \E k, m \in 1..Len(collectedOf[r]) :
              /\ k < m
              /\ Identity(collectedOf[r][k]) = Identity(collectedOf[r][m])
              /\ collectedOf[r][k].Evidence # collectedOf[r][m].Evidence

\* The steps of a run whose backend calls return and whose progress callback
\* returns: every step of Run, of its dispatcher and of its workers.
RunStep ==
    \/ RunEntry
    \/ \E w \in Workers : TakeJob(w)
    \/ CloseJobs
    \/ \E w \in Workers : WorkerExit(w)
    \/ \E w \in Workers : ChatReturn(w)
    \/ \E w \in Workers : Receive(w)
    \/ ProgressConsumed
    \/ Compose
    \/ VerdictReturn

\* Steps a worker still has before it: its call to return, its send, its
\* result's notification, and the end of its range loop.
StepsOfWorker(w) ==
    CASE wpc[w] = "calling" -> 4
      [] wpc[w] = "sending" -> 3
      [] wpc[w] = "done" -> 0
      [] OTHER -> 1

RECURSIVE StepsOfWorkers(_)
StepsOfWorkers(n) ==
    IF n = 0 THEN 0 ELSE StepsOfWorker(n) + StepsOfWorkers(n - 1)

StepsOfRun ==
    CASE pc = "entry" -> 4
      [] pc = "recv" -> 3
      [] pc = "progress" -> 4
      [] pc = "compose" -> 2
      [] pc = "verdict" -> 1
      [] OTHER -> 0

\* A bound on the steps that are left.
StepsLeft ==
    StepsOfRun + StepsOfWorkers(PoolSize)
        + 5 * (Len(files) + 1 - jobsNext)
        + (IF dpc = "done" THEN 0 ELSE 1)
        + (IF cancelled THEN 0 ELSE 1)

\* C18: a run that has not returned always has a step of Run, of the
\* dispatcher or of a worker to take, given that backend calls and the
\* progress callback return (no deadlock), and every step brings the run
\* closer to its return: no run goes on for ever, whatever the number of
\* files, the number of workers and the interleaving.
C18_RunTerminates ==
    /\ [](pc = "returned" \/ ENABLED RunStep)
    /\ [][StepsLeft' < StepsLeft /\ StepsLeft' >= 0]_vars

C18_Witness ==
    /\ pc = "returned"
    /\ ret.kind = "result"
    /\ Len(files) = 1
    /\ opts.MaxConcurrency > Len(files)
    /\ \A w \in Workers : wpc[w] \in {"none", "done"}

\* The diff as its file sections, hunks and hunk body lines: a section starts
\* at a "diff --git " line, a hunk of the section at a "@@" line, and the body
\* of a hunk is made of the lines up to the next hunk or section.
IsFileStart(i) ==
    HasPrefix(diff[i], DiffGitPrefix)

IsHunkStart(i) ==
    /\ HasPrefix(diff[i], HunkMarker)
    /\ \E f \in 1..(i - 1) : IsFileStart(f)

FileStarts ==
    {i \in 1..Len(diff) : IsFileStart(i)}

\* Where the section or the hunk that starts at line i ends.
EndOf(i, starts) ==
    IF \E k \in starts : k > i
    THEN (CHOOSE k \in starts : k > i /\ \A m \in starts : m > i => k <= m) - 1
    ELSE Len(diff)

HunkStartsOf(f) ==
    {h \in (f + 1)..EndOf(f, FileStarts) : IsHunkStart(h)}

BodyOf(h) ==
    SubSeq(diff, h + 1, EndOf(h, FileStarts \cup {k \in 1..Len(diff) : IsHunkStart(k)}))

\* The k-th smallest element of a set of numbers.
Nth(set, k) ==
    CHOOSE x \in set : Cardinality({y \in set : y < x}) = k - 1

\* Every hunk body line begins with '+', '-' or a space.
BodiesWellFormed ==
    \A f \in FileStarts : \A h \in HunkStartsOf(f) :
        \A i \in 1..Len(BodyOf(h)) : KindOf(BodyOf(h)[i]) # -1

\* A parsed line written back as a line of the diff.
Serialize(line) ==
    << CASE line.Kind = DiffLineAdd -> "+"
         [] line.Kind = DiffLineDel -> "-"
         [] OTHER -> " " >> \o line.Text

\* C19: for a diff whose hunk body lines each begin with '+', '-' or a space,
\* ParseUnifiedDiff returns one file per section, one hunk per hunk header, and
\* in each hunk the body lines in order, each with the kind of its first
\* character and the rest of the line as its text: written back, the parsed
\* lines are the body lines.
C19_BodyLinesRoundTrip ==
    (ppc = "returned" /\ parseRet.kind = "files" /\ BodiesWellFormed)
        => /\ Len(parseRet.files) = Cardinality(FileStarts)
           /\ \A k \in 1..Len(parseRet.files) :
                 LET hunks == parseRet.files[k].Hunks
                     starts == HunkStartsOf(Nth(FileStarts, k))
                 IN  /\ Len(hunks) = Cardinality(starts)
                     /\ \A j \in 1..Len(hunks) :
                           [m \in 1..Len(hunks[j].Lines) |-> Serialize(hunks[j].Lines[m])]
                               = BodyOf(Nth(starts, j))

\* Lines of the given kinds before position n.
Preceding(lines, n, kinds) ==
    Cardinality({m \in 1..(n - 1) : lines[m].Kind \in kinds})

\* The hunks ParseUnifiedDiff returned.
ParsedHunks ==
    UNION { Range(parseRet.files[k].Hunks) : k \in 1..Len(parseRet.files) }

\* C20: in every hunk that ParseUnifiedDiff returns, an Add line has oldLine 0
\* and newLine = NewStart + the Add and Context lines before it, a Del line has
\* newLine 0 and oldLine = OldStart + the Del and Context lines before it, a
\* Context line has both numbers; along the hunk the numbers of each side
\* never decrease.
C20_LineNumbersFollowCounters ==
    \A hunk \in ParsedHunks :
        \A n \in 1..Len(hunk.Lines) :
            LET line == hunk.Lines[n]
                new == hunk.NewStart + Preceding(hunk.Lines, n, {DiffLineAdd, DiffLineContext})
                old == hunk.OldStart + Preceding(hunk.Lines, n, {DiffLineDel, DiffLineContext})
            IN  /\ line.Kind = DiffLineAdd => (line.OldLine = 0 /\ line.NewLine = new)
                /\ line.Kind = DiffLineDel => (line.NewLine = 0 /\ line.OldLine = old)
                /\ line.Kind = DiffLineContext => (line.OldLine = old /\ line.NewLine = new)
                /\ \A m \in 1..(n - 1) :
                      /\ (line.Kind # DiffLineDel /\ hunk.Lines[m].Kind # DiffLineDel)
                            => hunk.Lines[m].NewLine <= line.NewLine
                      /\ (line.Kind # DiffLineAdd /\ hunk.Lines[m].Kind # DiffLineAdd)
                            => hunk.Lines[m].OldLine <= line.OldLine

C20_Witness ==
    /\ ppc = "returned"
    /\ \E hunk \in ParsedHunks :
          /\ Len(hunk.Lines) = 3
          /\ hunk.Lines[1].Kind = DiffLineContext
          /\ hunk.Lines[2].Kind = DiffLineDel
          /\ hunk.Lines[3].Kind = DiffLineAdd
          /\ hunk.Lines[3].NewLine = hunk.NewStart + 1
          /\ hunk.Lines[2].OldLine = hunk.OldStart + 1

\* The count a side of a header stands for: 1 when it is omitted.
CountOf(count) ==
    IF count = << >> THEN 1 ELSE count[1]

\* C21: parseHunkHeader returns, for the line `@@ -a[,b] +c[,d] @@`, no error
\* and oldStart = a, newStart = c, oldLines = b and newLines = d, an omitted b
\* or d being 1 whatever the other side has.
C21_HeaderFieldsParsed ==
    hunkRet.done
        => /\ hunkRet.err = ""
           /\ hunkRet.oldStart = header.oldStart
           /\ hunkRet.oldLines = CountOf(header.oldLines)
           /\ hunkRet.newStart = header.newStart
           /\ hunkRet.newLines = CountOf(header.newLines)

C21_Witness ==
    /\ hunkRet.done
    /\ header.oldStart = 1 /\ header.oldLines = << >>
    /\ header.newStart = 12 /\ header.newLines = << 5 >>
    /\ hunkRet.oldLines = 1 /\ hunkRet.newLines = 5

\* A hunk header of a file section is one of the unparsable lines.
HasBadHunk ==
    \E i \in 1..Len(diff) : IsHunkStart(i) /\ diff[i] \in BadHunkLines

\* C22: when a hunk header of a file section has one token only, or a start
\* or a count that is no number, ParseUnifiedDiff returns an error and no
\* file, the files of the sections before that header included.
C22_BadHunkHeaderFailsWholeParse ==
    (ppc = "returned" /\ HasBadHunk)
        => /\ parseRet.kind = "error"
           /\ parseRet.err # ""
           /\ parseRet.files = << >>

C22_Witness ==
    /\ ppc = "returned"
    /\ HasBadHunk
    /\ parseRet.kind = "error"
    /\ diffFiles # << >>
    /\ \E i \in 1..Len(diff) : IsHunkStart(i) /\ diff[i] = LineBadCount

\* Every character of the diff is whitespace.
AllWhitespace ==
    \A i \in 1..Len(diff) : \A j \in 1..Len(diff[i]) : IsSpace(diff[i][j])

\* C23: for a text that is empty or made of whitespace only, ParseUnifiedDiff
\* returns an error and no file.
C23_BlankDiffFails ==
    (ppc = "returned" /\ AllWhitespace)
        => /\ parseRet.kind = "error"
           /\ parseRet.err = "diff is empty"
           /\ parseRet.files = << >>

C23_Witness ==
    /\ ppc = "returned"
    /\ AllWhitespace
    /\ Len(diff) = 2
    /\ parseRet.kind = "error"

\* The lines of the section that starts at f which come before its first hunk.
HeaderLinesOf(f) ==
    {i \in (f + 1)..EndOf(f, FileStarts) : \A h \in HunkStartsOf(f) : i < h}

\* The path that the `+++ ` line of the section names: the text after the
\* marker, trimmed, without a leading b/; unset without such a line, and for
\* /dev/null.
PathLineOf(f) ==
    LET named == {i \in HeaderLinesOf(f) : HasPrefix(diff[i], NewPathPrefix)}
        last == CHOOSE i \in named : \A k \in named : k <= i
        path == TrimPrefix(TrimSpaceText(TrimPrefix(diff[last], NewPathPrefix)), NewSidePrefix)
    IN  IF named = {} \/ path = DevNull THEN << >> ELSE path

\* C24: ParseUnifiedDiff returns one DiffFile per `diff --git ` line, in the
\* order of the lines; the hunks of a file are those whose headers are in its
\* section, none for a section without a header; the path of a file is the one
\* its `+++ ` line names, without the leading b/.
C24_OneFilePerSection ==
    (ppc = "returned" /\ parseRet.kind = "files")
        => /\ Len(parseRet.files) = Cardinality(FileStarts)
           /\ \A k \in 1..Len(parseRet.files) :
                 LET file == parseRet.files[k]
                     f == Nth(FileStarts, k)
                     starts == HunkStartsOf(f)
                 IN  /\ Len(file.Hunks) = Cardinality(starts)
                     /\ \A j \in 1..Len(file.Hunks) :
                           file.Hunks[j].Header = diff[Nth(starts, j)]
                     /\ file.Path = PathLineOf(f)

\* C25: Run skips a file whose path is unset, as the parser leaves it for a
\* section whose new path is /dev/null: no backend call is made for the file
\* and no worker's result for the file carries a comment.
C25_UnsetPathIsSkipped ==
    \A i \in 1..Len(files) :
        files[i].Path = ""
            => /\ calls[i] = 0
               /\ \A w \in Workers : wresult[w].file = i => wresult[w].comments = << >>

\* C26: every comment of a Result that Run returns has a file path, a title
\* and a body that are not empty, StartLine > 0 and EndLine >= StartLine, one of
\* the four severities, Publish set, and an ID that is not empty and is the
\* identity hash of the comment; no two comments of the Result have the same ID.
C26_ResultCommentsWellFormed ==
    ret.kind = "result"
        => LET comments == ret.result.Comments
           IN  /\ \A n \in 1..Len(comments) :
                     LET comment == comments[n]
                     IN  /\ comment.FilePath # "" /\ comment.Title # "" /\ comment.Body # ""
                         /\ comment.StartLine > 0
                         /\ comment.EndLine >= comment.StartLine
                         /\ comment.Severity \in {SeverityNit, SeveritySuggestion,
                                                  SeverityIssue, SeverityBlocker}
                         /\ comment.Publish
                         /\ comment.ID # << >>
                         /\ comment.ID = StableCommentID(comment)
               /\ \A n, k \in 1..Len(comments) :
                     comments[n].ID = comments[k].ID => n = k

C26_Witness ==
    /\ ret.kind = "result"
    /\ Len(ret.result.Comments) = 2
    /\ \E n \in 1..2 : ret.result.Comments[n].Severity = SeverityNit
    /\ \E n \in 1..2 : ret.result.Comments[n].Severity = SeverityBlocker
    /\ droppedEntries > 0

\* A failure the caller may retry: the transport failed, or the status is 429
\* or at least 500.
RetryableFailure(response) ==
    \/ response.kind = "transport"
    \/ response.kind = "http" /\ response.status \in {429} \cup {n \in Statuses : n >= 500}

\* An attempt that succeeded: a status below 300 and a decodable body whose
\* first choice has content.
Succeeded(response) ==
    /\ response.kind = "http"
    /\ response.status < 300
    /\ response.body.json
    /\ response.body.choices # << >>
    /\ response.body.choices[1] \notin {"", " "}

\* C27: a call of ChatCompletion makes at most 3 attempts; another attempt, and
\* the backoff before it, come only after a retryable failure (transport error,
\* 429, status >= 500); the call returns the content at the first attempt that
\* succeeds, and returns the error of an attempt that fails otherwise without
\* another attempt, after one attempt when that is the first.
C27_AtMostThreeAttempts ==
    /\ Len(served) <= 3
    /\ \A n \in 1..(Len(served) - 1) : RetryableFailure(served[n])
    /\ chatPc \in {"request", "backoff"} => \A n \in 1..Len(served) : RetryableFailure(served[n])
    /\ (served # << >> /\ Succeeded(served[Len(served)]))
          => /\ chatPc = "returned"
             /\ chatRet.err = "" /\ chatRet.content # ""
    /\ (served # << >> /\ ~Succeeded(served[Len(served)])
                       /\ ~RetryableFailure(served[Len(served)]))
          => /\ chatPc = "returned"
             /\ chatRet.err # "" /\ chatRet.err = lastErr /\ chatRet.content = ""
    /\ (chatPc = "returned" /\ chatRet.err = "") => Succeeded(served[Len(served)])

C27_Witness ==
    /\ chatPc = "returned"
    /\ Len(served) = 3
    /\ served[1].kind = "transport"
    /\ served[2].status = 429
    /\ served[3].status = 404
    /\ chatRet.err = "openrouter request failed"

\* C28: HashGuidelines returns the same digest, or the same error, for the
\* same guideline paths given in two orders, with the same files and the same
\* free text.
C28_DigestIgnoresPathOrder ==
    (hashRet[1].done /\ hashRet[2].done) => hashRet[1] = hashRet[2]

C28_Witness ==
    /\ hashRet[1].done /\ hashRet[2].done
    /\ hashPaths[1] = << "docs/c.md", "a.md", "b.md" >>
    /\ hashPaths[2] = << "b.md", "docs/c.md", "a.md" >>
    /\ hashRet[1].hashed
    /\ hashRet[1].digest = hashRet[2].digest

\* C29: when Ctrl+C is pressed in the dashboard while a review is running, the
\* cancel function of the run has been called when the program quits, whatever
\* the active tab.
C29_CtrlCCancelsRunningReview ==
    (quit /\ lastKey = "ctrl+c" /\ ~ui.inWizard /\ ui.reviewRunning
          /\ ui.cancel # 0 /\ gpc[ui.cancel] # "done")
        => ui.cancel \in ctxDone

\* No review is in flight: none was started and not announced yet, and no
\* review goroutine is alive.
NoReviewInFlight ==
    /\ ~ui.reviewRunning
    /\ \A r \in Reviews : gpc[r] \in {"none", "done"} /\ ReviewStartedMsg(r) \notin inbox

\* C30: pressing r in the Comments tab or in the Config tab, with no review
\* running, diff files loaded and an API key available, launches a review (a
\* reviewStartedMsg follows).
C30_RStartsReview ==
    [][(/\ pressed' = pressed + 1
        /\ lastKey' = "r"
        /\ ~ui.inWizard /\ ~ui.showHelp /\ ~ui.commentsFilterActive
        /\ Tabs[ui.active] \in {"Comments", "Config"}
        /\ NoReviewInFlight
        /\ ui.diff = "files"
        /\ keyOK)
            => /\ launched' = launched + 1
               /\ ReviewStartedMsg(launched') \in inbox']_vars

\* An entry the schema accepts: a range of positive lines that does not end
\* before it starts, and a path, a title and a body that are not blank.
SchemaValid(entry) ==
    /\ entry.StartLine > 0
    /\ entry.EndLine >= entry.StartLine
    /\ entry.FilePath \notin {"", " "}
    /\ entry.Title \notin {"", " "}
    /\ entry.Body \notin {"", " "}

\* C31: the comments parseFileComments returns for a decodable response are
\* its schema-valid entries, all of them, each once, in the order of the
\* response.
C31_CommentsAreValidEntriesInOrder ==
    (parsedOut.done /\ answer.json)
        => LET valid == {i \in 1..Len(answer.comments) : SchemaValid(answer.comments[i])}
           IN  /\ parsedOut.err = ""
               /\ Len(parsedOut.comments) = Cardinality(valid)
               /\ \A k \in 1..Len(parsedOut.comments) :
                     LET entry == answer.comments[Nth(valid, k)]
                         comment == parsedOut.comments[k]
                     IN  /\ comment.FilePath = TrimSpace(entry.FilePath)
                         /\ comment.StartLine = entry.StartLine
                         /\ comment.EndLine = entry.EndLine
                         /\ comment.Title = TrimSpace(entry.Title)
                         /\ comment.Body = TrimSpace(entry.Body)

C31_Witness ==
    /\ parsedOut.done
    /\ answer.comments = << EntryNit, EntryBadRange, EntryLeak >>
    /\ Len(parsedOut.comments) = 2
    /\ parsedOut.comments[1].Title = "Name"
    /\ parsedOut.comments[2].Title = "Leak"

\* The line the scanner delivers next is inside a hunk and is no body line: it
\* is the marker of a missing line break, or begins with none of '+', '-' and
\* space, and is neither the start of a section nor a hunk header.
NextLineIsSkipped ==
    /\ ppc = "scan"
    /\ scanned < Len(diff)
    /\ currentHunk # 0
    /\ LET line == diff[scanned + 1]
       IN  /\ ~HasPrefix(line, DiffGitPrefix)
           /\ ~HasPrefix(line, HunkMarker)
           /\ \/ line = NoNewlineMarker
              \/ line = << >>
              \/ line # << >> /\ line[1] \notin {"+", "-", " "}

KindsAndTexts(hunk) ==
    [ i \in 1..Len(hunk.Lines) |-> << hunk.Lines[i].Kind, hunk.Lines[i].Text >> ]

\* The parse returned one file that has the path, the hunk headers and the
\* lines of the file that was rendered.
ParsedBack ==
    /\ parseRet.kind = "files"
    /\ Len(parseRet.files) = 1
    /\ parseRet.files[1].Path = rfile.Path
    /\ Len(parseRet.files[1].Hunks) = Len(rfile.Hunks)
    /\ \A j \in 1..Len(rfile.Hunks) :
          j <= Len(parseRet.files[1].Hunks)
              => /\ parseRet.files[1].Hunks[j].Header = rfile.Hunks[j].Header
                 /\ KindsAndTexts(parseRet.files[1].Hunks[j]) = KindsAndTexts(rfile.Hunks[j])

\* C33: for a DiffFile with a path and at least one hunk with well-formed
\* headers, the parse of the output of RenderUnifiedDiffFile is one file with
\* the same path, the same hunk headers and, in each hunk, the same lines
\* (kind and text).
C33_RenderedFileParsesBack ==
    (rfile # NoDiffFile /\ ppc = "returned") => ParsedBack

\* The response is a fenced code block: an opening fence with or without a
\* tag, the content on the lines after it, and a closing fence.
Wrapped ==
    /\ reply.open \in {OpenTagged, OpenBare}
    /\ reply.close \in {CloseOwnLine, CloseThenBreak}

Unfenced ==
    reply.open = OpenNone

\* C34: a response wrapped in a fenced code block, with or without a language
\* tag after the opening fence, is reduced to the content between the fences;
\* a response without a fence comes back as it is but for the whitespace
\* around it.
C34_FenceIsStripped ==
    stripRet.done
        => /\ Wrapped => stripRet.text = reply.inner
           /\ Unfenced => stripRet.text = TrimSpaceText(TextOf(reply))

\* The identities of the comments of a list.
IdentitiesOf(comments) ==
    { Identity(comments[k]) : k \in 1..Len(comments) }

\* C35: two runs that are given the same per-file responses return comments
\* of the same identities, the same Stats and the same rule decision, whatever
\* the order in which the results of the files arrived in each and whatever
\* the order in which dedupeComments laid its result out.
C35_SameIdentitiesStatsDecision ==
    (dedupedOf[1].done /\ dedupedOf[2].done)
        => /\ IdentitiesOf(dedupedOf[1].comments) = IdentitiesOf(dedupedOf[2].comments)
           /\ ComputeStats(dedupedOf[1].comments) = ComputeStats(dedupedOf[2].comments)
           /\ RuleDecision(ComputeStats(dedupedOf[1].comments))
                  = RuleDecision(ComputeStats(dedupedOf[2].comments))

C35_Witness ==
    /\ dedupedOf[1].done
    /\ dedupedOf[2].done
    /\ Len(perFile) = 2
    /\ collectedOf[1] # collectedOf[2]
    /\ dedupedOf[1].comments # dedupedOf[2].comments
    /\ Cardinality(IdentitiesOf(collectedOf[1])) = 2
    /\ Len(collectedOf[1]) = 3
    /\ RuleDecision(ComputeStats(dedupedOf[1].comments)) = DecisionNoGo
    /\ ComputeStats(dedupedOf[1].comments).Issue = 1

\* The comments of a list that have the given severity.
WithSeverity(comments, sev) ==
    {k \in 1..Len(comments) : comments[k].Severity = sev}

\* C36: in every Result, the Stats of the verdict are the counts, severity by
\* severity, of the comments of that Result, with a verdict of the model as
\* with the fallback verdict, and the four counts add up to the number of
\* comments.
C36_StatsCountResultComments ==
    ret.kind = "result"
        => LET comments == ret.result.Comments
               stats == ret.result.Verdict.Stats
           IN  /\ stats.Nit = Cardinality(WithSeverity(comments, SeverityNit))
               /\ stats.Suggestion = Cardinality(WithSeverity(comments, SeveritySuggestion))
               /\ stats.Issue = Cardinality(WithSeverity(comments, SeverityIssue))
               /\ stats.Blocker = Cardinality(WithSeverity(comments, SeverityBlocker))
               /\ stats.Nit + stats.Suggestion + stats.Issue + stats.Blocker = Len(comments)

C36_Witness ==
    /\ ret.kind = "result"
    /\ generated.err = ""
    /\ ret.result.Verdict.Summary = "fine"
    /\ Len(ret.result.Comments) = 2
    /\ ret.result.Verdict.Stats.Blocker = 1
    /\ ret.result.Verdict.Stats.Nit = 1

\* The reviews the user cancelled with Esc: their cancel function was called
\* and the program goes on (Ctrl+C calls it too, and quits).
CancelledWithEsc ==
    IF quit THEN {} ELSE ctxDone

\* C37: once the user has cancelled a running review with Esc, no
\* reviewCompletedMsg of that run is handed to Update and its Result is not
\* installed in reviewResult, whatever the interleaving of the review
\* goroutine and the UI loop.
C37_CancelledRunInstallsNothing ==
    [][\A r \in CancelledWithEsc :
          /\ \A err \in BOOLEAN :
                ReviewCompletedMsg(r, err) \in inbox => ReviewCompletedMsg(r, err) \in inbox'
          /\ ui.reviewResult # r => ui'.reviewResult # r]_vars

\* The first MaxAttempts attempts of the call failed with errors that are
\* retried.
AllAttemptsRetryable ==
    /\ Len(served) >= MaxAttempts
    /\ \A i \in 1..MaxAttempts : doRequest(served[i]).err # "" /\ doRequest(served[i]).retry

C39_BGoesBackFromModelStep ==
    (wizKey = "b" /\ wizFrom = "wizardModel" /\ ~wiz.err)
        => wiz.wizardStep = "wizardBranch"

====
